---- MODULE Spec2Model ----
(***************************************************************************)
(* Model of the lexical and syntactic tasks of zerospeech2021:             *)
(*   - validate()  of src/zerospeech2021/lexical.py and syntactic.py       *)
(*   - evaluate()  of the same files: load_data, evaluate_by_pair,         *)
(*     evaluate_by_frequency, evaluate_by_length, evaluate_by_type.        *)
(*                                                                         *)
(* Conventions                                                             *)
(*   - a data frame is a sequence of records, in row order;                *)
(*   - a missing cell (pandas NaN / <NA>) is the value NaN;                *)
(*   - a float that the code computes by 0.5 steps or by a mean is an      *)
(*     exact rational [num, den] in lowest terms (den > 0);                *)
(*   - a text line is a sequence of one-character strings;                 *)
(*   - a raised exception is a record [kind, ...] holding the arguments    *)
(*     the code gives to the constructor.                                  *)
(***************************************************************************)
EXTENDS Integers, Sequences, FiniteSets, TLC

\* ------------------------------------------------------------------ bounds

\* longest submission file given to validate(), in lines
MaxLines == 3

\* longest gold table given to evaluate() in the pairing family, in rows
MaxRows == 4

\* most (word, non word) pairs of a gold table in the banding family
MaxPairs == 2

\* the most calls of leaderboard() on one submission
MaxBuilds == 2

\* the most score files absent from a score folder
MaxMissing == 2

\* ----------------------------------------------------------------- values

\* A cell of a data frame is <<v>> when it holds v and NaN when it is missing.
NaN == <<>>

Some(v) == <<v>>

Val(c) == c[1]

Max(a, b) == IF a >= b THEN a ELSE b

RECURSIVE GCD(_, _)
GCD(a, b) == IF b = 0 THEN a ELSE GCD(b, a % b)

Abs(a) == IF a < 0 THEN -a ELSE a

\* the rational n/d in lowest terms, d > 0
Rat(n, d) ==
    LET g == GCD(Abs(n), d)
    IN  [num |-> n \div g, den |-> d \div g]

RAdd(p, q) == Rat(p.num * q.den + q.num * p.den, p.den * q.den)

RScale(p, k) == Rat(p.num * k, p.den)

RECURSIVE RSum(_)
RSum(s) ==
    IF s = <<>> THEN Rat(0, 1)
    ELSE IF Len(s) = 1 THEN RAdd(s[1], Rat(0, 1))
    ELSE LET h == Len(s) \div 2
         IN  RAdd(RSum(SubSeq(s, 1, h)), RSum(SubSeq(s, h + 1, Len(s))))

RSub(p, q) == Rat(p.num * q.den - q.num * p.den, p.den * q.den)

RMul(p, q) == Rat(p.num * q.num, p.den * q.den)

\* pandas 'mean' of a column of floats: NaN for the empty column
RMean(s) ==
    IF s = <<>> THEN NaN
    ELSE LET t == RSum(s) IN Some(Rat(t.num, t.den * Len(s)))

\* pandas 'std' of a column of floats (sample standard deviation, ddof = 1),
\* kept as its square: NaN when the column has fewer than two values
RVar(s) ==
    IF Len(s) < 2 THEN NaN
    ELSE LET m  == Val(RMean(s))
             sq == [i \in 1..Len(s) |-> RMul(RSub(s[i], m), RSub(s[i], m))]
             t  == RSum(sq)
         IN  Some(Rat(t.num, t.den * (Len(s) - 1)))

\* the members of a finite set of integers, in increasing order
RECURSIVE SortedSeq(_)
SortedSeq(S) ==
    IF S = {} THEN <<>>
    ELSE LET m == CHOOSE x \in S : \A y \in S : x <= y
         IN  <<m>> \o SortedSeq(S \ {m})

Range(s) == {s[i] : i \in 1..Len(s)}

Column(frame, col) == [i \in 1..Len(frame) |-> frame[i][col]]

\* lexicographic order on tuples of integers of one length
RECURSIVE TupleLess(_, _)
TupleLess(a, b) ==
    /\ a # <<>>
    /\ \/ Head(a) < Head(b)
       \/ Head(a) = Head(b) /\ TupleLess(Tail(a), Tail(b))

\* the members of a finite set of such tuples, in increasing order
RECURSIVE SortedTuples(_)
SortedTuples(S) ==
    IF S = {} THEN <<>>
    ELSE LET m == CHOOSE x \in S : \A y \in S : x = y \/ TupleLess(x, y)
         IN  <<m>> \o SortedTuples(S \ {m})

\* ------------------------------------------------------------------ state

VARIABLES
    \* validate(submission, dataset, kind)
    kind,                \* the 'kind' argument
    submission_is_file,  \* pathlib.Path(submission).is_file()
    dataset_is_dir,      \* (dataset / '<task>/<kind>').is_dir()
    required_files,      \* stems of the *.wav files of the dataset
    submission,          \* the lines of the submission file, in file order
    validated,           \* outcome of validate: none, ok or the raised error
    \* evaluate(gold_file, submission_file)
    gold_file,           \* [is_file, frame]: the gold.csv of the task
    submission_file,     \* [is_file, frame]: filename -> score
    pairs,               \* the index columns of load_data's lines 148-152
    data,                \* what load_data returned
    scored,              \* data once evaluate_by_pair has put its 'score' column
    by_pair,             \* what evaluate_by_pair returned
    returned,            \* outcome of evaluate: none, the tables or the error
    \* leaderboard.ZeroSpeechSubmission
    score_location,      \* the score folder: file name -> table read by read_csv
    external_meta,       \* the platform metadata file: NaN or the dict in it
    semantic_size,       \* [dev, test]: what get_semantic_size returned
    clock,               \* the time datetime.now() last gave
    subs,                \* outcome of ZeroSpeechSubmission(...): none, ok, error
    entries,             \* what the calls of leaderboard() returned, in order
    \* semantic.evaluate(gold_file, pairs_file, submission_dir, metric, pooling)
    arguments,           \* [gold_file, pairs_file, submission_dir, metric,
                         \*  pooling]: the files as [is_file, frame], the
                         \* directory as [is_dir, files]
    reads,               \* the files whose content was read, in order
    pool,                \* the frame [filename, type, pooling] of lines 265-271
    cdists,              \* the calls of scipy's cdist: operands and outcome
    evaluated,           \* outcome of semantic.evaluate: none, tables or error
    \* cli/evaluate.py: the evaluate command
    options,             \* [kinds, skipped]: the kinds evaluated, in order, and
                         \* the tasks switched off by --no-<task>
    fault,               \* the step of the run that raises: NaN or [task,
                         \* kind, stage, error]
    output_directory,    \* the files this run wrote in the output directory
    running,             \* the task the command is about to evaluate, or how
                         \* it ended: "done", "exit" (sys.exit(-1)), "raised"
    \* semantic.validate and phonetic.validate
    checking,            \* the arguments and the directories they name
    checked,             \* the files given to _validate_file, in order
    printed,             \* the lines printed, in order
    validation,          \* outcome of validate: none, ok or the raised error
    \* meta.validate and Metadata.create_from on one meta.yaml
    meta_yaml,           \* what yaml reads from submission/meta.yaml
    accepted,           \* outcome of meta.validate
    metadata,            \* outcome of Metadata.create_from
    \* zr_upload_lib: the multipart upload of one archive
    archive,             \* the number of parts split_zip_v2 makes of the zip
    save_file,           \* the checkpoint file: NaN or Some(its content)
    tmp_location,        \* TRUE when the directory of the parts exists
    man,                 \* UploadManifest.man: the status of each part
    submission_id,       \* TRUE when the metadata hold a submission_id
    upload,              \* where the run is: "idle", "create", "loop",
                         \* "sending", "returned", "exit" or "raised"
    current,             \* the part the loop is on
    returns,             \* what multipart_upload returned, NaN before
    sent,                \* requests made for each part in this run
    sends,               \* <<part, status>> for every request ever made:
                         \* the status the checkpoint file had for the part
    succeeded,           \* the parts the server answered 200 for
    runs                 \* the calls of multipart_upload so far

vars ==
    <<kind, submission_is_file, dataset_is_dir, required_files, submission,
      validated, gold_file, submission_file, pairs, data, scored, by_pair,
      returned, score_location, external_meta, semantic_size, clock, subs,
      entries, arguments, reads, pool, cdists, evaluated, options, fault,
      output_directory, running, checking, checked, printed, validation,
      meta_yaml, accepted, metadata, archive, save_file, tmp_location, man,
      submission_id, upload, current, returns, sent, sends, succeeded, runs>>

validate_vars ==
    <<kind, submission_is_file, dataset_is_dir, required_files, submission,
      validated>>

evaluate_vars ==
    <<gold_file, submission_file, pairs, data, scored, by_pair, returned>>

leaderboard_vars ==
    <<score_location, external_meta, semantic_size, clock, subs, entries>>

semantic_vars == <<arguments, reads, pool, cdists, evaluated>>

command_vars == <<options, fault, output_directory, running>>

\* the variables of the scoring functions, and those of the programs around
\* them
scoring_vars ==
    <<validate_vars, evaluate_vars, leaderboard_vars, semantic_vars>>

features_vars == <<checking, checked, printed, validation>>

meta_vars == <<meta_yaml, accepted, metadata>>

upload_vars ==
    <<archive, save_file, tmp_location, man, submission_id, upload, current,
      returns, sent, sends, succeeded, runs>>

other_vars == <<command_vars, features_vars, meta_vars, upload_vars>>

\* ---------------------------------------------------- lexical.load_data

ValueError(message) == [kind |-> "ValueError", message |-> message]

Raised(r) == r.kind \notin {"none", "ok"}

\* lines 129-135: the index (filenames) of a loaded frame
gold_index(gold) == {gold[i].filename : i \in 1..Len(gold)}

\* lines 141-145: gold and score put side by side on the filename, in the
\* order of the gold rows; every cell becomes a nullable cell
merge_gold_score(gold, score) ==
    [i \in 1..Len(gold) |->
        [index     |-> Some(i),
         id        |-> Some(gold[i].id),
         voice     |-> Some(gold[i].voice),
         correct   |-> Some(gold[i].correct),
         word      |-> Some(gold[i].word),
         frequency |-> gold[i].frequency,
         length    |-> gold[i].length,
         type      |-> Some(gold[i].type),
         subtype   |-> Some(gold[i].subtype),
         score     |-> Some(score[gold[i].filename])]]

\* the cell of column col in one side of a pair line; the side is NaN on
\* the lines that the shorter of the two frames does not reach
Cell(side, col) == IF side = NaN THEN NaN ELSE Val(side)[col]

\* lines 148-152: the rows with correct == 1 and the rows with correct == 0,
\* each renumbered from the top (reset_index), concatenated along axis 1:
\* line i holds the i-th correct row and the i-th incorrect row
\* an inner join in place of the outer one: the lines one side lacks are lost
side_by_side_inner(w, nw) ==
    [i \in 1..(IF Len(w) <= Len(nw) THEN Len(w) ELSE Len(nw)) |->
        [w |-> Some(w[i]), nw |-> Some(nw[i])]]

side_by_side(w, nw) ==
    [i \in 1..Max(Len(w), Len(nw)) |->
        [w  |-> IF i <= Len(w) THEN Some(w[i]) ELSE NaN,
         nw |-> IF i <= Len(nw) THEN Some(nw[i]) ELSE NaN]]

pair_lines(merged) ==
    side_by_side(SelectSeq(merged, LAMBDA r : r.correct = Some(1)),
                 SelectSeq(merged, LAMBDA r : r.correct = Some(0)))

\* the columns 'w_index' and 'nw_index' of the frame of lines 148-152: the
\* gold rows each line was made of (load_data drops them at lines 153-156)
index_columns(lines) ==
    [i \in 1..Len(lines) |->
        [w_index  |-> Cell(lines[i].w, "index"),
         nw_index |-> Cell(lines[i].nw, "index")]]

\* lexical.py lines 153-161: the columns load_data keeps, renamed
lexical_columns(lines) ==
    [i \in 1..Len(lines) |->
        [id             |-> Cell(lines[i].w, "id"),
         voice          |-> Cell(lines[i].w, "voice"),
         frequency      |-> Cell(lines[i].w, "frequency"),
         word           |-> Cell(lines[i].w, "word"),
         length         |-> Cell(lines[i].w, "length"),
         score_word     |-> Cell(lines[i].w, "score"),
         non_word       |-> Cell(lines[i].nw, "word"),
         score_non_word |-> Cell(lines[i].nw, "score")]]

\* syntactic.py lines 153-167: the columns load_data keeps, renamed
syntactic_columns(lines) ==
    [i \in 1..Len(lines) |->
        [id                 |-> Cell(lines[i].w, "id"),
         voice              |-> Cell(lines[i].w, "voice"),
         type               |-> Cell(lines[i].w, "type"),
         subtype            |-> Cell(lines[i].w, "subtype"),
         sentence           |-> Cell(lines[i].w, "word"),
         score_sentence     |-> Cell(lines[i].w, "score"),
         non_sentence       |-> Cell(lines[i].nw, "word"),
         score_non_sentence |-> Cell(lines[i].nw, "score")]]

\* the filename check as an inclusion: a filename too many goes unnoticed
load_pairs_subset(gold, score) ==
    IF ~gold.is_file \/ ~score.is_file
    THEN ValueError("file not found")
    ELSE IF ~(gold_index(gold.frame) \subseteq DOMAIN score.frame)
    THEN ValueError("mismatch between gold and submission !")
    ELSE [kind  |-> "ok",
          lines |-> pair_lines(merge_gold_score(gold.frame, score.frame))]

\* lexical.py lines 124-152 (syntactic.py 125-152): load_data up to the
\* pair lines: the error it raises, or ok with the frame of lines 148-152
load_pairs(gold, score) ==
    IF ~gold.is_file \/ ~score.is_file
    THEN ValueError("file not found")
    ELSE IF gold_index(gold.frame) # DOMAIN score.frame
    THEN ValueError("mismatch between gold and submission !")
    ELSE [kind  |-> "ok",
          lines |-> pair_lines(merge_gold_score(gold.frame, score.frame))]

\* load_data: the error it raises, or ok with the returned frame (data)
lexical_load_data(gold, score) ==
    LET r == load_pairs(gold, score)
    IN  IF r.kind = "ok"
        THEN [kind |-> "ok", data |-> lexical_columns(r.lines)]
        ELSE r

syntactic_load_data(gold, score) ==
    LET r == load_pairs(gold, score)
    IN  IF r.kind = "ok"
        THEN [kind |-> "ok", data |-> syntactic_columns(r.lines)]
        ELSE r

\* ------------------------------------------------------- evaluate_by_pair

\* numpy's == and > on two float cells: False as soon as one side is NaN
CellEq(a, b) == a # NaN /\ b # NaN /\ Val(a) = Val(b)

CellGt(a, b) == a # NaN /\ b # NaN /\ Val(a) > Val(b)

Bool(b) == IF b THEN 1 ELSE 0

\* the half point of a tie forgotten
pair_score_ties_lose(a, b) == Rat(Bool(CellGt(a, b)), 1)

\* lexical.py lines 184-186 (syntactic.py 190-192), for one row:
\*     0.5 * (score[:, 0] == score[:, 1]) + (score[:, 0] > score[:, 1])
pair_score(a, b) ==
    RAdd(RScale(Rat(1, 2), Bool(CellEq(a, b))), Rat(Bool(CellGt(a, b)), 1))

\* lexical.py lines 183-187: the 'score' column replaces the two raw scores
lexical_scored(frame) ==
    [i \in 1..Len(frame) |->
        [id        |-> frame[i].id,
         voice     |-> frame[i].voice,
         frequency |-> frame[i].frequency,
         word      |-> frame[i].word,
         length    |-> frame[i].length,
         non_word  |-> frame[i].non_word,
         score     |-> pair_score(frame[i].score_word,
                                  frame[i].score_non_word)]]

\* lexical.py line 190: the groups of groupby('id'), in increasing order of
\* the key; a row whose key is missing belongs to no group
lexical_groups(rows) ==
    SortedSeq({Val(rows[i].id) :
                   i \in {j \in 1..Len(rows) : rows[j].id # NaN}})

\* lexical.py lines 190-198: one row per group, holding the word, non word,
\* frequency and length of the first row of the group and the mean score
\* the score of the first voice in place of the mean over the voices
lexical_pair_first_voice(x) ==
    [word      |-> x[1].word,
     non_word  |-> x[1].non_word,
     frequency |-> x[1].frequency,
     length    |-> x[1].length,
     score     |-> x[1].score]

lexical_pair(x) ==
    [word      |-> x[1].word,
     non_word  |-> x[1].non_word,
     frequency |-> x[1].frequency,
     length    |-> x[1].length,
     score     |-> Val(RMean(Column(x, "score")))]

lexical_apply(rows, keys) ==
    [k \in 1..Len(keys) |->
        lexical_pair(SelectSeq(rows, LAMBDA r : r.id = Some(keys[k])))]

lexical_evaluate_by_pair(frame) ==
    lexical_apply(lexical_scored(frame), lexical_groups(lexical_scored(frame)))

\* syntactic.py lines 189-193
syntactic_scored(frame) ==
    [i \in 1..Len(frame) |->
        [id           |-> frame[i].id,
         voice        |-> frame[i].voice,
         type         |-> frame[i].type,
         subtype      |-> frame[i].subtype,
         sentence     |-> frame[i].sentence,
         non_sentence |-> frame[i].non_sentence,
         score        |-> pair_score(frame[i].score_sentence,
                                     frame[i].score_non_sentence)]]

\* the key of a row under groupby(['type', 'subtype', 'id'])
syntactic_key(r) == <<Val(r.type), Val(r.subtype), Val(r.id)>>

\* syntactic.py line 196: the groups, in increasing order of the key; a row
\* with a missing cell in the key belongs to no group
syntactic_groups(rows) ==
    SortedTuples({syntactic_key(rows[i]) :
                      i \in {j \in 1..Len(rows) :
                                 /\ rows[j].type # NaN
                                 /\ rows[j].subtype # NaN
                                 /\ rows[j].id # NaN}})

\* syntactic.py lines 196-204
syntactic_pair(x) ==
    [type         |-> x[1].type,
     subtype      |-> x[1].subtype,
     sentence     |-> x[1].sentence,
     non_sentence |-> x[1].non_sentence,
     score        |-> Val(RMean(Column(x, "score")))]

syntactic_apply(rows, keys) ==
    [k \in 1..Len(keys) |->
        syntactic_pair(SelectSeq(rows, LAMBDA r :
            /\ r.type # NaN /\ r.subtype # NaN /\ r.id # NaN
            /\ syntactic_key(r) = keys[k]))]

syntactic_evaluate_by_pair(frame) ==
    syntactic_apply(syntactic_scored(frame),
                    syntactic_groups(syntactic_scored(frame)))

\* ---------------------------------------------------------------- banding

\* lexical.py line 222: the bin edges given to pandas.cut; the last bin has
\* no upper edge (float('inf'))
BandEdges == <<0, 1, 5, 20, 100>>

\* lexical.py line 223
BandLabels == <<"oov", "1-5", "6-20", "21-100", ">100">>

\* right=True, the default of pandas.cut: edge[k] < f <= edge[k+1]
InBand_right_closed(f, k) ==
    /\ BandEdges[k] < f
    /\ k = Len(BandEdges) \/ f <= BandEdges[k + 1]

\* lexical.py line 224, right=False: bin k holds edge[k] <= f < edge[k+1]
InBand(f, k) ==
    /\ BandEdges[k] <= f
    /\ k = Len(BandEdges) \/ f < BandEdges[k + 1]

\* lexical.py lines 220-224: pandas.cut of one frequency cell: the label of
\* its bin, NaN for a missing frequency or one outside every bin
cut(frequency) ==
    IF frequency = NaN THEN NaN
    ELSE LET ks == {k \in 1..Len(BandEdges) : InBand(Val(frequency), k)}
         IN  IF ks = {} THEN NaN ELSE Some(BandLabels[CHOOSE k \in ks : TRUE])

\* the standard deviation of the population (ddof=0): 0 for a single score
agg_population_std(scores) ==
    [n     |-> Len(scores),
     score |-> RMean(scores),
     std   |-> IF Len(scores) = 1 THEN Some(Rat(0, 1)) ELSE RVar(scores)]

\* agg(n='count', score='mean', std='std') of one group of scores
agg(scores) ==
    [n |-> Len(scores), score |-> RMean(scores), std |-> RVar(scores)]

\* lexical.py lines 226-227: groupby on the categorical column of bands:
\* one row per category, in category order, a category without pair included
\* (n = 0); a pair whose band is NaN is in no group
evaluate_by_frequency(pair_frame) ==
    [k \in 1..Len(BandLabels) |->
        LET x == SelectSeq(pair_frame,
                           LAMBDA r : cut(r.frequency) = Some(BandLabels[k]))
            a == agg(Column(x, "score"))
        IN  [frequency |-> BandLabels[k],
             n |-> a.n, score |-> a.score, std |-> a.std]]

\* lexical.py lines 245-246: groupby(by_pair.length): one row per length
\* present, in increasing order; a pair whose length is NaN is in no group
evaluate_by_length(pair_frame) ==
    LET keys == SortedSeq({Val(pair_frame[i].length) :
                    i \in {j \in 1..Len(pair_frame) :
                               pair_frame[j].length # NaN}})
    IN  [k \in 1..Len(keys) |->
            LET x == SelectSeq(pair_frame,
                               LAMBDA r : r.length = Some(keys[k]))
                a == agg(Column(x, "score"))
            IN  [length |-> keys[k],
                 n |-> a.n, score |-> a.score, std |-> a.std]]

\* syntactic.py lines 222-223: groupby([by_pair.type, by_pair.subtype])
evaluate_by_type(pair_frame) ==
    LET keys == SortedTuples({<<Val(pair_frame[i].type),
                                Val(pair_frame[i].subtype)>> :
                    i \in {j \in 1..Len(pair_frame) :
                               /\ pair_frame[j].type # NaN
                               /\ pair_frame[j].subtype # NaN}})
    IN  [k \in 1..Len(keys) |->
            LET x == SelectSeq(pair_frame, LAMBDA r :
                         /\ r.type # NaN /\ r.subtype # NaN
                         /\ <<Val(r.type), Val(r.subtype)>> = keys[k])
                a == agg(Column(x, "score"))
            IN  [type |-> keys[k][1], subtype |-> keys[k][2],
                 n |-> a.n, score |-> a.score, std |-> a.std]]

\* ----------------------------------------------------------------- evaluate

NoOutcome == [kind |-> "none"]

\* lexical.py line 283: by_pair.drop(['frequency', 'length'], axis=1)
lexical_drop(pair_frame) ==
    [i \in 1..Len(pair_frame) |->
        [word     |-> pair_frame[i].word,
         non_word |-> pair_frame[i].non_word,
         score    |-> pair_frame[i].score]]

\* syntactic.py line 258: by_pair.drop(['type', 'subtype'], axis=1)
syntactic_drop(pair_frame) ==
    [i \in 1..Len(pair_frame) |->
        [sentence     |-> pair_frame[i].sentence,
         non_sentence |-> pair_frame[i].non_sentence,
         score        |-> pair_frame[i].score]]

\* lexical.py lines 278-285: evaluate(gold_file, submission_file)
LexicalEvaluate ==
    /\ returned = NoOutcome
    /\ \E p \in {load_pairs(gold_file, submission_file)} :
       \E r \in {lexical_load_data(gold_file, submission_file)} :
           IF Raised(r)
           THEN /\ returned' = r
                /\ UNCHANGED <<pairs, data, scored, by_pair>>
           ELSE \E bp \in {lexical_evaluate_by_pair(r.data)} :
                    /\ pairs' = index_columns(p.lines)
                    /\ data' = r.data
                    /\ scored' = lexical_scored(r.data)
                    /\ by_pair' = bp
                    /\ returned' =
                           [kind         |-> "ok",
                            task         |-> "lexical",
                            by_pair      |-> lexical_drop(bp),
                            by_frequency |-> evaluate_by_frequency(bp),
                            by_length    |-> evaluate_by_length(bp)]
    /\ UNCHANGED <<gold_file, submission_file>>
    /\ UNCHANGED validate_vars
    /\ UNCHANGED leaderboard_vars
    /\ UNCHANGED semantic_vars
    /\ UNCHANGED other_vars

\* syntactic.py lines 252-260: evaluate(gold_file, submission_file)
SyntacticEvaluate ==
    /\ returned = NoOutcome
    /\ \E p \in {load_pairs(gold_file, submission_file)} :
       \E r \in {syntactic_load_data(gold_file, submission_file)} :
           IF Raised(r)
           THEN /\ returned' = r
                /\ UNCHANGED <<pairs, data, scored, by_pair>>
           ELSE \E bp \in {syntactic_evaluate_by_pair(r.data)} :
                    /\ pairs' = index_columns(p.lines)
                    /\ data' = r.data
                    /\ scored' = syntactic_scored(r.data)
                    /\ by_pair' = bp
                    /\ returned' =
                           [kind    |-> "ok",
                            task    |-> "syntactic",
                            by_pair |-> syntactic_drop(bp),
                            by_type |-> evaluate_by_type(bp)]
    /\ UNCHANGED <<gold_file, submission_file>>
    /\ UNCHANGED validate_vars
    /\ UNCHANGED leaderboard_vars
    /\ UNCHANGED semantic_vars
    /\ UNCHANGED other_vars

\* ----------------------------------------------------- inputs of evaluate

\* the scores a submission gives to the correct items, and to the others
Scores == {-1, 0, 1}

FoilScores == {-1, 0}

\* (id, voice): pair 1 is rendered by two voices, pair 2 by one
Renderings == {<<1, 1>>, <<1, 2>>, <<2, 1>>}

\* an item of a gold file: a rendering of the correct (1) or of the
\* incorrect (0) member of a pair
Items == Renderings \X {0, 1}

\* the text of the item: one text per member of a pair, whatever the voice
WordOf(id, correct) == <<id, correct>>

\* Pairing family: the gold rows are any items, no item twice, in any order;
\* the other columns follow from the id of the pair.
PairingRow(i, item) ==
    [filename  |-> i,
     id        |-> item[1][1],
     voice     |-> item[1][2],
     correct   |-> item[2],
     word      |-> WordOf(item[1][1], item[2]),
     frequency |-> IF item[2] = 1 THEN Some(item[1][1]) ELSE NaN,
     length    |-> Some(item[1][1] + 2),
     type      |-> 1,
     subtype   |-> 3 - item[1][1]]

PairingGolds ==
    UNION {{[i \in 1..n |-> PairingRow(i, s[i])] :
               s \in {t \in [1..n -> Items] :
                         \A i, j \in 1..n : i # j => t[i] # t[j]}} :
           n \in 0..MaxRows}

\* the submissions tried against a gold frame: every scoring of its
\* filenames, one that lacks a filename and one with a filename too many
SubmissionsFor(gold) ==
    LET n == Len(gold)
    IN  {f \in [1..n -> Scores] :
                \A i \in 1..n : gold[i].correct = 0 => f[i] \in FoilScores}
            \cup {[i \in 1..(n + 1) |-> 0]}
            \cup {[i \in (1..n) \ {k} |-> 0] : k \in 1..n}

File(frame) == [is_file |-> TRUE, frame |-> frame]

NoFile == [is_file |-> FALSE, frame |-> <<>>]

\* Banding family: whole pairs in file order, one voice, the columns read by
\* the banding drawn one at a time around a plain pair
Frequencies == {NaN} \cup {Some(f) : f \in {0, 1, 4, 5, 19, 20, 99, 100, 101}}

PlainProfile ==
    [frequency |-> Some(1), length |-> Some(3), type |-> 1, subtype |-> 1]

Profiles ==
    {[PlainProfile EXCEPT !.frequency = f] : f \in Frequencies}
        \cup {[PlainProfile EXCEPT !.length = l] : l \in {NaN, Some(4)}}
        \cup {[PlainProfile EXCEPT !.type = 2],
              [PlainProfile EXCEPT !.subtype = 2]}

BandingRow(i, profile) ==
    LET id      == (i + 1) \div 2
        correct == i % 2
    IN  [filename  |-> i,
         id        |-> id,
         voice     |-> 1,
         correct   |-> correct,
         word      |-> WordOf(id, correct),
         frequency |-> IF correct = 1 THEN profile.frequency ELSE NaN,
         length    |-> profile.length,
         type      |-> profile.type,
         subtype   |-> profile.subtype]

BandingGolds ==
    UNION {{[i \in 1..(2 * n) |-> BandingRow(i, p[(i + 1) \div 2])] :
               p \in [1..n -> Profiles]} :
           n \in 0..MaxPairs}

\* in the banding family the incorrect member of each pair scores 0
BandingSubmissionsFor(gold) ==
    {f \in [1..Len(gold) -> Scores] :
        \A i \in 1..Len(gold) : gold[i].correct = 0 => f[i] = 0}

\* ---------------------------------------------------------------- validate

Whitespace == {" ", "\t", "\n"}

Digits == {"0", "1", "2", "3", "4", "5", "6", "7", "8", "9"}

\* str.strip(): the line without its leading and trailing whitespace
RECURSIVE lstrip(_)
lstrip(s) ==
    IF s # <<>> /\ Head(s) \in Whitespace THEN lstrip(Tail(s)) ELSE s

RECURSIVE rstrip(_)
rstrip(s) ==
    IF s # <<>> /\ s[Len(s)] \in Whitespace
    THEN rstrip(SubSeq(s, 1, Len(s) - 1))
    ELSE s

strip(s) == rstrip(lstrip(s))

\* str.split(' '): the fields between the single spaces, empty ones included
RECURSIVE split(_)
split(s) ==
    IF \A i \in 1..Len(s) : s[i] # " " THEN <<s>>
    ELSE LET k == CHOOSE i \in 1..Len(s) :
                      s[i] = " " /\ \A j \in 1..(i - 1) : s[j] # " "
         IN  <<SubSeq(s, 1, k - 1)>> \o split(SubSeq(s, k + 1, Len(s)))

\* float(score) succeeds. Over the characters of Characters (no exponent,
\* no 'inf', no 'nan', no '_'): surrounding whitespace, an optional sign,
\* digits with at most one point and at least one digit.
is_float(score) ==
    LET t == strip(score)
        u == IF t # <<>> /\ Head(t) \in {"+", "-"} THEN Tail(t) ELSE t
    IN  /\ \A i \in 1..Len(u) : u[i] \in Digits \cup {"."}
        /\ Cardinality({i \in 1..Len(u) : u[i] = "."}) <= 1
        /\ \E i \in 1..Len(u) : u[i] \in Digits

\* the constructor calls of the errors of zerospeech2021.exception
FormatError(line, what, content) ==
    [kind |-> "FormatError", line |-> line, what |-> what,
     content |-> content]

MismatchError(message, expected, observed) ==
    [kind |-> "MismatchError", message |-> message,
     expected |-> expected, observed |-> observed]

\* lexical.py lines 10-33 (syntactic.py lines 10-33): the filename of the
\* line, or the FormatError raised
validate_line(index, line) ==
    LET fields == split(strip(line))
    IN  IF Len(fields) # 2
        THEN FormatError(index, "must be <filename> <score>", strip(line))
        ELSE IF ~is_float(fields[2])
        THEN FormatError(index, "<score> must be a float", fields[2])
        ELSE [kind |-> "ok", filename |-> fields[1]]

\* lexical.py lines 82-84: the list built from the generator: the filenames
\* of all the lines, or the error of the first line that raises
RECURSIVE validate_lines(_, _)
validate_lines(lines, index) ==
    IF lines = <<>> THEN [kind |-> "ok", filenames |-> <<>>]
    ELSE LET first == validate_line(index, Head(lines))
         IN  IF first.kind # "ok" THEN first
             ELSE LET rest == validate_lines(Tail(lines), index + 1)
                  IN  IF rest.kind # "ok" THEN rest
                      ELSE [kind |-> "ok",
                            filenames |-> <<first.filename>> \o rest.filenames]

Count(s, x) == Cardinality({i \in 1..Len(s) : s[i] = x})

\* lexical.py lines 87-88: the filenames found more than once, each once, in
\* the order of their first occurrence (collections.Counter keeps it)
RECURSIVE find_duplicates(_, _)
find_duplicates(files, seen) ==
    IF files = <<>> THEN <<>>
    ELSE LET f    == Head(files)
             rest == find_duplicates(Tail(files), seen \cup {f})
         IN  IF f \notin seen /\ Count(Tail(files), f) > 0
             THEN <<f>> \o rest
             ELSE rest

\* the two checks in the other order
check_filenames_swapped(required, submitted) ==
    IF required # Range(submitted)
    THEN MismatchError("mismatch in filenames", required, submitted)
    ELSE IF find_duplicates(submitted, {}) # <<>>
    THEN MismatchError("duplicates found", <<>>,
                       find_duplicates(submitted, {}))
    ELSE [kind |-> "ok"]

\* lexical.py lines 86-95: the checks on the submitted filenames
check_filenames(required, submitted) ==
    IF find_duplicates(submitted, {}) # <<>>
    THEN MismatchError("duplicates found", <<>>,
                       find_duplicates(submitted, {}))
    ELSE IF required # Range(submitted)
    THEN MismatchError("mismatch in filenames", required, submitted)
    ELSE [kind |-> "ok"]

\* the lines numbered from 0, as enumerate() does without the '+ 1'
lexical_validate_from_zero(lines, is_file, is_dir, required, k) ==
    IF k \notin {"dev", "test"}
    THEN ValueError("kind must be dev or test")
    ELSE IF ~is_file
    THEN ValueError("submission file not found")
    ELSE IF ~is_dir
    THEN ValueError("dataset not found")
    ELSE LET submitted == validate_lines(lines, 0)
         IN  IF submitted.kind # "ok" THEN submitted
             ELSE check_filenames(required, submitted.filenames)

\* lexical.py lines 67-95: validate(submission, dataset, kind)
lexical_validate(lines, is_file, is_dir, required, k) ==
    IF k \notin {"dev", "test"}
    THEN ValueError("kind must be dev or test")
    ELSE IF ~is_file
    THEN ValueError("submission file not found")
    ELSE IF ~is_dir
    THEN ValueError("dataset not found")
    ELSE LET submitted == validate_lines(lines, 1)
         IN  IF submitted.kind # "ok" THEN submitted
             ELSE check_filenames(required, submitted.filenames)

\* syntactic.py lines 68-96: the same function, on 'syntactic/<kind>'
syntactic_validate(lines, is_file, is_dir, required, k) ==
    IF k \notin {"dev", "test"}
    THEN ValueError("kind must be dev or test")
    ELSE IF ~is_file
    THEN ValueError("submission file not found")
    ELSE IF ~is_dir
    THEN ValueError("dataset not found")
    ELSE LET submitted == validate_lines(lines, 1)
         IN  IF submitted.kind # "ok" THEN submitted
             ELSE check_filenames(required, submitted.filenames)

LexicalValidate ==
    /\ validated = NoOutcome
    /\ validated' = [task |-> "lexical",
                     outcome |-> lexical_validate(
                         submission, submission_is_file, dataset_is_dir,
                         required_files, kind)]
    /\ UNCHANGED <<kind, submission_is_file, dataset_is_dir, required_files,
                   submission>>
    /\ UNCHANGED evaluate_vars
    /\ UNCHANGED leaderboard_vars
    /\ UNCHANGED semantic_vars
    /\ UNCHANGED other_vars

SyntacticValidate ==
    /\ validated = NoOutcome
    /\ validated' = [task |-> "syntactic",
                     outcome |-> syntactic_validate(
                         submission, submission_is_file, dataset_is_dir,
                         required_files, kind)]
    /\ UNCHANGED <<kind, submission_is_file, dataset_is_dir, required_files,
                   submission>>
    /\ UNCHANGED evaluate_vars
    /\ UNCHANGED leaderboard_vars
    /\ UNCHANGED semantic_vars
    /\ UNCHANGED other_vars

\* ------------------------------------------------------ inputs of validate

\* the characters of the lines tried
Characters == {"A", "B", "x", "0", "1", "5", ".", "-", " ", "\t", "\n"}

\* the lines tried, as open() yields them (with their end of line)
LinePool ==
    {<<"A", " ", "1", "\n">>,
     <<"B", " ", "-", "0", ".", "5", "\n">>,
     <<" ", "A", " ", "1", "\t", "\n">>,
     <<"A", "\n">>,
     <<"A", " ", " ", "1", "\n">>,
     <<"B", " ", "x", "\n">>,
     <<"\n">>,
     <<"A", "\t", "1", "\n">>}

Filenames == {<<"A">>, <<"B">>}

Kinds == {"dev", "train"}

\* ------------------------------------------------------------ leaderboard

\* leaderboard.py lines 15-20, 94-95, 174-177, 215: the score files
lexical_dev_pairs == "score_lexical_dev_by_pair.csv"

lexical_test_pairs == "score_lexical_test_by_pair.csv"

lexical_dev_frequency == "score_lexical_dev_by_frequency.csv"

lexical_test_frequency == "score_lexical_test_by_frequency.csv"

lexical_dev_length == "score_lexical_dev_by_length.csv"

lexical_test_length == "score_lexical_test_by_length.csv"

semantic_dev_correlation == "score_semantic_dev_correlation.csv"

semantic_test_correlation == "score_semantic_test_correlation.csv"

syntactic_dev_pairs == "score_syntactic_dev_by_pair.csv"

syntactic_test_pairs == "score_syntactic_test_by_pair.csv"

syntactic_dev_types == "score_syntactic_dev_by_type.csv"

syntactic_test_types == "score_syntactic_test_by_type.csv"

phonetic_scores == "score_phonetic.csv"

\* the error FileNotFoundError, with the function that raised it and the
\* score file its message names
FileNotFoundError(raised_by, names) ==
    [kind |-> "FileNotFoundError", raised_by |-> raised_by, names |-> names]

\* (location / name).is_file()
is_file(location, name) == name \in DOMAIN location

\* leaderboard.py lines 22-36: LexicalScores.is_valid. The message of line 32,
\* raised for the test frequency file, is the one of line 30 and names the
\* dev frequency file; 'by_pairs' in the messages of lines 34 and 36 is read
\* as the by_pair file
lexical_is_valid(location) ==
    IF ~is_file(location, lexical_dev_length)
    THEN FileNotFoundError("is_valid", lexical_dev_length)
    ELSE IF ~is_file(location, lexical_test_length)
    THEN FileNotFoundError("is_valid", lexical_test_length)
    ELSE IF ~is_file(location, lexical_dev_frequency)
    THEN FileNotFoundError("is_valid", lexical_dev_frequency)
    ELSE IF ~is_file(location, lexical_test_frequency)
    THEN FileNotFoundError("is_valid", lexical_dev_frequency)
    ELSE IF ~is_file(location, lexical_dev_pairs)
    THEN FileNotFoundError("is_valid", lexical_dev_pairs)
    ELSE IF ~is_file(location, lexical_test_pairs)
    THEN FileNotFoundError("is_valid", lexical_test_pairs)
    ELSE [kind |-> "ok"]

\* bool(location / name): a pathlib.Path is an object without __bool__ nor
\* __len__, true whether or not the file is there
path_is_true(location, name) == TRUE

\* leaderboard.py lines 97-103: SemanticScore.is_valid tests the paths
\* themselves, 'if not (location / name)'
semantic_is_valid(location) ==
    IF ~path_is_true(location, semantic_dev_correlation)
    THEN FileNotFoundError("is_valid", semantic_dev_correlation)
    ELSE IF ~path_is_true(location, semantic_test_correlation)
    THEN FileNotFoundError("is_valid", semantic_test_correlation)
    ELSE [kind |-> "ok"]

\* leaderboard.py lines 179-189: SyntacticScores.is_valid, the same test
syntactic_is_valid(location) ==
    IF ~path_is_true(location, syntactic_dev_pairs)
    THEN FileNotFoundError("is_valid", syntactic_dev_pairs)
    ELSE IF ~path_is_true(location, syntactic_test_pairs)
    THEN FileNotFoundError("is_valid", syntactic_test_pairs)
    ELSE IF ~path_is_true(location, syntactic_dev_types)
    THEN FileNotFoundError("is_valid", syntactic_dev_types)
    ELSE IF ~path_is_true(location, syntactic_test_types)
    THEN FileNotFoundError("is_valid", syntactic_test_types)
    ELSE [kind |-> "ok"]

\* leaderboard.py lines 217-221: PhoneticScores.is_valid, the same test
phonetic_is_valid(location) ==
    IF ~path_is_true(location, phonetic_scores)
    THEN FileNotFoundError("is_valid", phonetic_scores)
    ELSE [kind |-> "ok"]

\* leaderboard.py lines 289-300: Metadata.filter_external_meta.
\* datetime.fromisoformat fails on None (TypeError) and on a string that is
\* no ISO date (ValueError): the date is None then
filter_external_meta(meta) ==
    [submission_date |->
        IF meta.submitted_at # NaN /\ Val(meta.submitted_at).iso
        THEN Some(Val(meta.submitted_at).date) ELSE NaN,
     submitted_by  |-> meta.user,
     submission_id |-> meta.submission_id]

\* leaderboard.py lines 272-287: parse_external_meta; {} without a file
parse_external_meta(file) ==
    IF file = NaN
    THEN [submitted_at |-> NaN, user |-> NaN, submission_id |-> NaN]
    ELSE Val(file)

\* the content of meta.yaml, the same in every submission tried
MetaYaml ==
    [author            |-> "author",
     affiliation       |-> "affiliation",
     description       |-> "description",
     open_source       |-> TRUE,
     train_set         |-> "train set",
     gpu_budget        |-> 1,
     visually_grounded |-> FALSE,
     parameters        |-> <<>>]

\* leaderboard.py lines 302-310: Metadata.create_from
create_from(file) ==
    [meta     |-> MetaYaml,
     external |-> filter_external_meta(parse_external_meta(file))]

\* leaderboard.py lines 335-345: ZeroSpeechSubmission.__init__: the first
\* error of the four is_valid, or ok with the metadata
submission_init(location, file) ==
    IF Raised(lexical_is_valid(location)) THEN lexical_is_valid(location)
    ELSE IF Raised(semantic_is_valid(location))
    THEN semantic_is_valid(location)
    ELSE IF Raised(syntactic_is_valid(location))
    THEN syntactic_is_valid(location)
    ELSE IF Raised(phonetic_is_valid(location))
    THEN phonetic_is_valid(location)
    ELSE [kind |-> "ok", description |-> create_from(file)]

\* cli/leaderboard.py lines 39-42: subs = ZeroSpeechSubmission(...)
Create ==
    /\ subs = NoOutcome
    /\ subs' = submission_init(score_location, external_meta)
    /\ UNCHANGED <<score_location, external_meta, semantic_size, clock,
                   entries>>
    /\ UNCHANGED validate_vars
    /\ UNCHANGED evaluate_vars
    /\ UNCHANGED semantic_vars
    /\ UNCHANGED other_vars

\* pandas.read_csv(location / name): the table, or the error of a file that
\* is not there
read_csv(location, name) ==
    IF is_file(location, name)
    THEN [kind |-> "ok", frame |-> location[name]]
    ELSE FileNotFoundError("read_csv", name)

\* pandas 'mean' of a column of cells: the mean of the cells that are there
mean(cells) ==
    RMean([i \in 1..Len(SelectSeq(cells, LAMBDA c : c # NaN)) |->
              Val(SelectSeq(cells, LAMBDA c : c # NaN)[i])])

Products(cells, weights) ==
    [i \in 1..Len(cells) |-> RMul(Val(cells[i]), Val(weights[i]))]

Values(cells) == [i \in 1..Len(cells) |-> Val(cells[i])]

\* the weighted sum divided by the number of cells, not by the sum of the
\* weights
average_by_count(cells, weights) ==
    IF \E i \in 1..Len(weights) : weights[i] = NaN
    THEN [kind |-> "ok", value |-> NaN]
    ELSE IF RSum(Values(weights)).num = 0
    THEN [kind |-> "ZeroDivisionError"]
    ELSE IF \E i \in 1..Len(cells) : cells[i] = NaN
    THEN [kind |-> "ok", value |-> NaN]
    ELSE LET t == RSum(Products(cells, weights))
         IN  [kind |-> "ok", value |-> Some(Rat(t.num, t.den * Len(cells)))]

\* numpy.average(cells, weights=weights): ZeroDivisionError when the weights
\* sum to zero, NaN when a weight or a cell is NaN, else sum(c * w) / sum(w)
average(cells, weights) ==
    IF \E i \in 1..Len(weights) : weights[i] = NaN
    THEN [kind |-> "ok", value |-> NaN]
    ELSE IF RSum(Values(weights)).num = 0
    THEN [kind |-> "ZeroDivisionError"]
    ELSE IF \E i \in 1..Len(cells) : cells[i] = NaN
    THEN [kind |-> "ok", value |-> NaN]
    ELSE LET t == RSum(Products(cells, weights))
             w == RSum(Values(weights))
         IN  [kind |-> "ok", value |-> Some(Rat(t.num * w.den, t.den * w.num))]

\* the column 'n' as weights
Weights(frame) == [i \in 1..Len(frame) |-> Some(Rat(frame[i].n, 1))]

\* leaderboard.py lines 43-52: LexicalScores._score_invocab
score_invocab(frame) ==
    average(Column(SelectSeq(frame, LAMBDA r : r.frequency # "oov"), "score"),
            Weights(SelectSeq(frame, LAMBDA r : r.frequency # "oov")))

\* leaderboard.py lines 54-70: LexicalScores.general
lexical_general(location) ==
    LET dev_pairs      == read_csv(location, lexical_dev_pairs)
        test_pairs     == read_csv(location, lexical_test_pairs)
        dev_frequency  == read_csv(location, lexical_dev_frequency)
        test_frequency == read_csv(location, lexical_test_frequency)
    IN  IF Raised(dev_pairs) THEN dev_pairs
        ELSE IF Raised(test_pairs) THEN test_pairs
        ELSE IF Raised(dev_frequency) THEN dev_frequency
        ELSE IF Raised(score_invocab(dev_frequency.frame))
        THEN score_invocab(dev_frequency.frame)
        ELSE IF Raised(test_frequency) THEN test_frequency
        ELSE IF Raised(score_invocab(test_frequency.frame))
        THEN score_invocab(test_frequency.frame)
        ELSE [kind |-> "ok",
              lexical_all |->
                  <<mean(Column(dev_pairs.frame, "score")),
                    mean(Column(test_pairs.frame, "score"))>>,
              lexical_invocab |->
                  <<score_invocab(dev_frequency.frame).value,
                    score_invocab(test_frequency.frame).value>>]

\* pandas.merge(dev, test, how="outer", on=[col]) for the keys in their
\* sorted order: under each key the rows of dev crossed with the rows of
\* test; the columns of a side without row for the key are null (NaN here
\* for the side as a whole)
RECURSIVE merge(_, _, _, _)
merge(dev, test, keys, col) ==
    IF keys = <<>> THEN <<>>
    ELSE LET k == Head(keys)
             l == SelectSeq(dev, LAMBDA x : x[col] = k)
             r == SelectSeq(test, LAMBDA x : x[col] = k)
             rows ==
                 IF l = <<>>
                 THEN [j \in 1..Len(r) |->
                          [key |-> k, dev |-> NaN, test |-> Some(r[j])]]
                 ELSE IF r = <<>>
                 THEN [i \in 1..Len(l) |->
                          [key |-> k, dev |-> Some(l[i]), test |-> NaN]]
                 ELSE [m \in 1..(Len(l) * Len(r)) |->
                          [key  |-> k,
                           dev  |-> Some(l[((m - 1) \div Len(r)) + 1]),
                           test |-> Some(r[((m - 1) % Len(r)) + 1])]]
         IN  rows \o merge(dev, test, Tail(keys), col)

\* the band labels in the order of strings, the order of the merged keys
SortedLabels == <<"1-5", "21-100", "6-20", ">100", "oov">>

\* the keys of an inner join: those the two tables share
KeysOnBoth(dev, test, col) ==
    {dev[i][col] : i \in 1..Len(dev)} \cap {test[i][col] : i \in 1..Len(test)}

\* the keys of the two tables on column col
KeysOn(dev, test, col) ==
    {dev[i][col] : i \in 1..Len(dev)} \cup {test[i][col] : i \in 1..Len(test)}

\* leaderboard.py lines 72-88: LexicalScores.detailed
lexical_detailed(location) ==
    LET frequency_dev  == read_csv(location, lexical_dev_frequency)
        frequency_test == read_csv(location, lexical_test_frequency)
        length_dev     == read_csv(location, lexical_dev_length)
        length_test    == read_csv(location, lexical_test_length)
    IN  IF Raised(frequency_dev) THEN frequency_dev
        ELSE IF Raised(frequency_test) THEN frequency_test
        ELSE IF Raised(length_dev) THEN length_dev
        ELSE IF Raised(length_test) THEN length_test
        ELSE [kind |-> "ok",
              by_length |->
                  merge(length_dev.frame, length_test.frame,
                        SortedSeq(KeysOn(length_dev.frame,
                                         length_test.frame, "length")),
                        "length"),
              by_frequency |->
                  merge(frequency_dev.frame, frequency_test.frame,
                        SelectSeq(SortedLabels, LAMBDA b :
                            b \in KeysOn(frequency_dev.frame,
                                         frequency_test.frame, "frequency")),
                        "frequency")]

\* leaderboard.py lines 117 and 129: frame['size'] = size['size'], a column
\* of another frame, put in place by row label: row i gets the size of row i
\* of the size frame, NaN when this frame is shorter
with_size(frame, size) ==
    [i \in 1..Len(frame) |->
        [type        |-> frame[i].type,
         dataset     |-> frame[i].dataset,
         correlation |-> frame[i].correlation,
         size        |-> IF i <= Len(size)
                         THEN Some(Rat(size[i].size, 1)) ELSE NaN]]

OfType(frame, type) == SelectSeq(frame, LAMBDA r : r.type = type)

\* leaderboard.py lines 114-123 (dev) and 126-135 (test): the means and the
\* weighted means of one correlation table
semantic_means(frame, size) ==
    LET sized == with_size(frame, size)
        librispeech_wmean ==
            average(Column(OfType(sized, "librispeech"), "correlation"),
                    Column(OfType(sized, "librispeech"), "size"))
        synthetic_wmean ==
            average(Column(OfType(sized, "synthetic"), "correlation"),
                    Column(OfType(sized, "synthetic"), "size"))
    IN  IF Raised(librispeech_wmean) THEN librispeech_wmean
        ELSE IF Raised(synthetic_wmean) THEN synthetic_wmean
        ELSE [kind |-> "ok",
              librispeech_mean |->
                  mean(Column(OfType(frame, "librispeech"), "correlation")),
              synthetic_mean |->
                  mean(Column(OfType(frame, "synthetic"), "correlation")),
              librispeech_wmean |-> librispeech_wmean.value,
              synthetic_wmean   |-> synthetic_wmean.value]

\* leaderboard.py lines 111-146: SemanticScore.general
semantic_general(location, size) ==
    LET dev_correlations  == read_csv(location, semantic_dev_correlation)
        test_correlations == read_csv(location, semantic_test_correlation)
    IN  IF Raised(dev_correlations) THEN dev_correlations
        ELSE IF Raised(semantic_means(dev_correlations.frame, size.dev))
        THEN semantic_means(dev_correlations.frame, size.dev)
        ELSE IF Raised(test_correlations) THEN test_correlations
        ELSE IF Raised(semantic_means(test_correlations.frame, size.test))
        THEN semantic_means(test_correlations.frame, size.test)
        ELSE LET dev  == semantic_means(dev_correlations.frame, size.dev)
                 test == semantic_means(test_correlations.frame, size.test)
             IN  [kind |-> "ok",
                  semantic_synthetic |->
                      <<dev.synthetic_mean, test.synthetic_mean>>,
                  semantic_librispeech |->
                      <<dev.librispeech_mean, test.librispeech_mean>>,
                  weighted_semantic_synthetic |->
                      <<dev.synthetic_wmean, test.synthetic_wmean>>,
                  weighted_semantic_librispeech |->
                      <<dev.librispeech_wmean, test.librispeech_wmean>>]

\* leaderboard.py lines 153-158 (dev) and 160-165 (test): one row per
\* dataset, in the order of the datasets, with the first correlation of the
\* dataset in the column named 'librispeech' and the second in 'synthetic';
\* naming the columns fails unless the fullest dataset has two rows
unstack(frame, set) ==
    LET datasets == SortedSeq({frame[i].dataset : i \in 1..Len(frame)})
        of(d)    == SelectSeq(frame, LAMBDA r : r.dataset = d)
    IN  IF \/ \E i \in 1..Len(frame) : Len(of(frame[i].dataset)) > 2
           \/ \A i \in 1..Len(frame) : Len(of(frame[i].dataset)) < 2
        THEN ValueError("Length mismatch")
        ELSE [kind |-> "ok",
              frame |->
                  [k \in 1..Len(datasets) |->
                      [dataset     |-> datasets[k],
                       librispeech |-> of(datasets[k])[1].correlation,
                       synthetic   |-> IF Len(of(datasets[k])) < 2 THEN NaN
                                       ELSE of(datasets[k])[2].correlation,
                       set         |-> set]]]

\* leaderboard.py lines 148-168: SemanticScore.detailed
semantic_detailed(location) ==
    LET dev_correlations  == read_csv(location, semantic_dev_correlation)
        test_correlations == read_csv(location, semantic_test_correlation)
    IN  IF Raised(dev_correlations) THEN dev_correlations
        ELSE IF Raised(test_correlations) THEN test_correlations
        ELSE IF Raised(unstack(dev_correlations.frame, "dev"))
        THEN unstack(dev_correlations.frame, "dev")
        ELSE IF Raised(unstack(test_correlations.frame, "test"))
        THEN unstack(test_correlations.frame, "test")
        ELSE [kind |-> "ok",
              correlations |->
                  unstack(dev_correlations.frame, "dev").frame
                      \o unstack(test_correlations.frame, "test").frame]

\* leaderboard.py lines 196-200: SyntacticScores.general
syntactic_general(location) ==
    LET dev_pairs  == read_csv(location, syntactic_dev_pairs)
        test_pairs == read_csv(location, syntactic_test_pairs)
    IN  IF Raised(dev_pairs) THEN dev_pairs
        ELSE IF Raised(test_pairs) THEN test_pairs
        ELSE [kind |-> "ok",
              syntactic |-> <<mean(Column(dev_pairs.frame, "score")),
                              mean(Column(test_pairs.frame, "score"))>>]

\* leaderboard.py lines 202-209: SyntacticScores.detailed, merged on 'type'
syntactic_detailed(location) ==
    LET dev_types  == read_csv(location, syntactic_dev_types)
        test_types == read_csv(location, syntactic_test_types)
    IN  IF Raised(dev_types) THEN dev_types
        ELSE IF Raised(test_types) THEN test_types
        ELSE [kind |-> "ok",
              merged |->
                  merge(dev_types.frame, test_types.frame,
                        SortedSeq(KeysOn(dev_types.frame,
                                         test_types.frame, "type")),
                        "type")]

\* leaderboard.py lines 231-242: e(frame rows of one dataset and
\* sub-dataset)[type]: the score of the last such row, KeyError without one
phonetic_score(frame, dataset, sub, type) ==
    LET rows == SelectSeq(frame, LAMBDA r :
                    r.dataset = dataset /\ r.sub = sub /\ r.type = type)
    IN  IF rows = <<>> THEN [kind |-> "KeyError", key |-> type]
        ELSE [kind |-> "ok", value |-> rows[Len(rows)].score]

\* leaderboard.py lines 244-249, in the order of evaluation
PhoneticKeys ==
    <<<<"dev", "clean", "within">>, <<"test", "clean", "within">>,
      <<"dev", "clean", "across">>, <<"test", "clean", "across">>,
      <<"dev", "other", "within">>, <<"test", "other", "within">>,
      <<"dev", "other", "across">>, <<"test", "other", "across">>>>

\* leaderboard.py lines 228-249: PhoneticScores.general
phonetic_general(location) ==
    LET read == read_csv(location, phonetic_scores)
        e(k) == phonetic_score(read.frame, PhoneticKeys[k][1],
                               PhoneticKeys[k][2], PhoneticKeys[k][3])
    IN  IF Raised(read) THEN read
        ELSE IF \E k \in 1..Len(PhoneticKeys) : Raised(e(k))
        THEN e(CHOOSE k \in 1..Len(PhoneticKeys) :
                   /\ Raised(e(k))
                   /\ \A j \in 1..(k - 1) : ~Raised(e(j)))
        ELSE [kind |-> "ok",
              phonetic_clean_within |-> <<e(1).value, e(2).value>>,
              phonetic_clean_across |-> <<e(3).value, e(4).value>>,
              phonetic_other_within |-> <<e(5).value, e(6).value>>,
              phonetic_other_across |-> <<e(7).value, e(8).value>>]

\* the date of the call whether or not the submission has one
to_dict_now(description, now) ==
    [submitted_at      |-> now,
     author            |-> description.meta.author,
     affiliation       |-> description.meta.affiliation,
     submitted_by      |-> description.external.submitted_by,
     submission_id     |-> description.external.submission_id,
     description       |-> description.meta.description,
     visually_grounded |-> description.meta.visually_grounded,
     open_source       |-> description.meta.open_source,
     train_set         |-> description.meta.train_set,
     gpu_budget        |-> description.meta.gpu_budget,
     parameters        |-> description.meta.parameters]

\* leaderboard.py lines 312-330: Metadata.to_dict; without submission date
\* the date is the one of the call, datetime.now()
to_dict(description, now) ==
    [submitted_at      |-> IF description.external.submission_date # NaN
                           THEN Val(description.external.submission_date)
                           ELSE now,
     author            |-> description.meta.author,
     affiliation       |-> description.meta.affiliation,
     submitted_by      |-> description.external.submitted_by,
     submission_id     |-> description.external.submission_id,
     description       |-> description.meta.description,
     visually_grounded |-> description.meta.visually_grounded,
     open_source       |-> description.meta.open_source,
     train_set         |-> description.meta.train_set,
     gpu_budget        |-> description.meta.gpu_budget,
     parameters        |-> description.meta.parameters]

\* leaderboard.py lines 347-367: ZeroSpeechSubmission.leaderboard: the
\* record, or the first error of the reads in the order of the calls
leaderboard(location, size, description, now) ==
    LET ph  == phonetic_general(location)
        le  == lexical_general(location)
        se  == semantic_general(location, size)
        sy  == syntactic_general(location)
        lex == lexical_detailed(location)
        syn == syntactic_detailed(location)
        sem == semantic_detailed(location)
    IN  IF Raised(ph) THEN ph
        ELSE IF Raised(le) THEN le
        ELSE IF Raised(se) THEN se
        ELSE IF Raised(sy) THEN sy
        ELSE IF Raised(lex) THEN lex
        ELSE IF Raised(syn) THEN syn
        ELSE IF Raised(sem) THEN sem
        ELSE [kind         |-> "ok",
              author_label |-> description.meta.author,
              set          |-> <<"dev", "test">>,
              lexical_all  |-> le.lexical_all,
              lexical_invocab |-> le.lexical_invocab,
              syntactic    |-> sy.syntactic,
              phonetic_clean_within |-> ph.phonetic_clean_within,
              phonetic_clean_across |-> ph.phonetic_clean_across,
              phonetic_other_within |-> ph.phonetic_other_within,
              phonetic_other_across |-> ph.phonetic_other_across,
              semantic_synthetic    |-> se.semantic_synthetic,
              semantic_librispeech  |-> se.semantic_librispeech,
              weighted_semantic_synthetic |-> se.weighted_semantic_synthetic,
              weighted_semantic_librispeech |->
                  se.weighted_semantic_librispeech,
              more |->
                  [description |-> to_dict(description, now),
                   lexical     |-> [by_length    |-> lex.by_length,
                                    by_frequency |-> lex.by_frequency],
                   syntactic   |-> syn.merged,
                   semantic    |-> sem.correlations]]

\* cli/leaderboard.py line 46: subs.leaderboard(), at a time not before the
\* one of the call before
Leaderboard ==
    /\ subs.kind = "ok"
    /\ Len(entries) < MaxBuilds
    /\ \E now \in {clock, clock + 1} :
           /\ clock' = now
           /\ \E e \in {leaderboard(score_location, semantic_size,
                                    subs.description, now)} :
                  entries' = Append(entries, e)
    /\ UNCHANGED <<score_location, external_meta, semantic_size, subs>>
    /\ UNCHANGED validate_vars
    /\ UNCHANGED evaluate_vars
    /\ UNCHANGED semantic_vars
    /\ UNCHANGED other_vars

\* ------------------------------------------------- inputs of leaderboard

ScoreFiles ==
    {lexical_dev_pairs, lexical_test_pairs, lexical_dev_frequency,
     lexical_test_frequency, lexical_dev_length, lexical_test_length,
     semantic_dev_correlation, semantic_test_correlation,
     syntactic_dev_pairs, syntactic_test_pairs, syntactic_dev_types,
     syntactic_test_types, phonetic_scores}

\* a by_pair table: only its column 'score' is read
PlainPairs == <<[score |-> Some(Rat(1, 1))], [score |-> Some(Rat(0, 1))]>>

\* the rows a summary can have for one category: none, one without pair
\* (n = 0, no score), one with one or two pairs
SummaryCells ==
    {[n |-> 0, score |-> NaN, std |-> NaN],
     [n |-> 1, score |-> Some(Rat(0, 1)), std |-> NaN],
     [n |-> 1, score |-> Some(Rat(1, 1)), std |-> NaN],
     [n |-> 2, score |-> Some(Rat(0, 1)), std |-> Some(Rat(0, 1))],
     [n |-> 2, score |-> Some(Rat(1, 1)), std |-> Some(Rat(0, 1))]}

PlainCell == [n |-> 1, score |-> Some(Rat(1, 1)), std |-> NaN]

\* the bands of the frequency tables tried
TableBands == <<"oov", "1-5", "6-20">>

FrequencyRows(cells) ==
    [k \in 1..Len(TableBands) |->
        [frequency |-> TableBands[k], n |-> cells[k].n,
         score |-> cells[k].score, std |-> cells[k].std]]

\* by_frequency tables: for each band a row or none
FrequencyTables ==
    {SelectSeq(FrequencyRows(cells), LAMBDA r : r.frequency \in present) :
        cells \in [1..Len(TableBands) -> SummaryCells],
        present \in SUBSET Range(TableBands)}

PlainFrequency == FrequencyRows([k \in 1..Len(TableBands) |-> PlainCell])

\* by_length tables: a row for each length of a set of lengths
LengthTable(lengths) ==
    [k \in 1..Len(SortedSeq(lengths)) |->
        [length |-> SortedSeq(lengths)[k], n |-> PlainCell.n,
         score |-> PlainCell.score, std |-> PlainCell.std]]

LengthTables == {LengthTable(lengths) : lengths \in SUBSET {3, 4, 5}}

\* by_type tables: a row for each (type, subtype) of a set
TypeTable(types) ==
    [k \in 1..Len(SortedTuples(types)) |->
        [type |-> SortedTuples(types)[k][1],
         subtype |-> SortedTuples(types)[k][2],
         n |-> PlainCell.n, score |-> PlainCell.score, std |-> PlainCell.std]]

TypeTables ==
    {TypeTable(types) : types \in SUBSET {<<1, 1>>, <<1, 2>>, <<2, 1>>}}

\* the (type, dataset) groups of pairs.csv, in the order of groupby
SemanticGroups ==
    <<<<"librispeech", 1>>, <<"librispeech", 2>>,
      <<"synthetic", 1>>, <<"synthetic", 2>>>>

CorrelationTable(correlations) ==
    [k \in 1..Len(SemanticGroups) |->
        [type |-> SemanticGroups[k][1], dataset |-> SemanticGroups[k][2],
         correlation |-> Some(Rat(correlations[k], 1))]]

CorrelationTables ==
    {CorrelationTable(c) : c \in [1..Len(SemanticGroups) -> {0, 1}]}

SizeTable(sizes) ==
    [k \in 1..Len(SemanticGroups) |->
        [type |-> SemanticGroups[k][1], dataset |-> SemanticGroups[k][2],
         size |-> sizes[k]]]

SizeTables == {SizeTable(z) : z \in [1..Len(SemanticGroups) -> {1, 2}]}

PlainSize == [dev  |-> SizeTable([k \in 1..Len(SemanticGroups) |-> 1]),
              test |-> SizeTable([k \in 1..Len(SemanticGroups) |-> 1])]

PlainPhonetic ==
    [k \in 1..Len(PhoneticKeys) |->
        [dataset |-> PhoneticKeys[k][1], sub |-> PhoneticKeys[k][2],
         type |-> PhoneticKeys[k][3], score |-> Some(Rat(k, 100))]]

\* a score folder with every file, as cli/evaluate.py writes them
PlainFolder ==
    [f \in ScoreFiles |->
        CASE f \in {lexical_dev_pairs, lexical_test_pairs,
                    syntactic_dev_pairs, syntactic_test_pairs} -> PlainPairs
          [] f \in {lexical_dev_frequency, lexical_test_frequency}
                 -> PlainFrequency
          [] f \in {lexical_dev_length, lexical_test_length}
                 -> LengthTable({3, 4})
          [] f \in {syntactic_dev_types, syntactic_test_types}
                 -> TypeTable({<<1, 1>>, <<2, 1>>})
          [] f \in {semantic_dev_correlation, semantic_test_correlation}
                 -> CorrelationTable([k \in 1..Len(SemanticGroups) |-> 1])
          [] OTHER -> PlainPhonetic]

\* the plain folder with other tables in two of its files
With(f, t, g, u) ==
    [x \in ScoreFiles |->
        IF x = f THEN t ELSE IF x = g THEN u ELSE PlainFolder[x]]

Without(missing) == [x \in ScoreFiles \ missing |-> PlainFolder[x]]

\* the platform metadata with an ISO date
DatedMeta ==
    Some([submitted_at |-> Some([iso |-> TRUE, date |-> 1]),
          user |-> Some("user"), submission_id |-> Some("id")])

\* the platform metadata: no file, no date, a date, a date that is no ISO date
ExternalMetas ==
    {NaN, DatedMeta} \cup
    {Some([submitted_at |-> d, user |-> Some("user"),
           submission_id |-> Some("id")]) :
        d \in {NaN, Some([iso |-> FALSE, date |-> 0])}}

\* ------------------------------------------------------- semantic.evaluate
\* An array is [ndim, data]: a vector holds a sequence of rationals, a matrix
\* a sequence of frames (vectors' data), a 3-D array a sequence of matrices'
\* data.  Feature files pass semantic.validate, so loadtxt gives a matrix.

\* semantic.py line 150: the largest number of tokens of a word
MaxTokens == 10

RLess(p, q) == p.num * q.den < q.num * p.den

RAbs(p) == Rat(Abs(p.num), p.den)

RDiv(p, k) == Rat(p.num, p.den * k)

RMax(s) == CHOOSE v \in Range(s) : \A w \in Range(s) : ~RLess(v, w)

RMin(s) == CHOOSE v \in Range(s) : \A w \in Range(s) : ~RLess(w, v)

Vector(values) == [ndim |-> 1, data |-> values]

Matrix(frames) == [ndim |-> 2, data |-> frames]

\* np.loadtxt of a text file of numbers, one frame a line
loadtxt(file) ==
    Matrix([i \in 1..Len(file) |->
        [j \in 1..Len(file[i]) |-> Rat(file[i][j], 1)]])

\* the names of the dictionary of lines 246-253
PoolingNames == {"max", "mean", "min", "sum", "last", "lastlast", "off"}

\* np.max, np.mean, np.min, np.sum along axis 0, one column at a time
reduce_axis0(pooling, column) ==
    CASE pooling = "max" -> RMax(column)
      [] pooling = "mean" -> Val(RMean(column))
      [] pooling = "min" -> RMin(column)
      [] pooling = "sum" -> RSum(column)

\* _pooling_function of lines 246-253, applied to a matrix
pooling_function(pooling, x) ==
    IF pooling \in {"max", "mean", "min", "sum"}
    THEN [kind |-> "ok",
          value |-> Vector([j \in 1..Len(x.data[1]) |->
              reduce_axis0(pooling,
                  [i \in 1..Len(x.data) |-> x.data[i][j]])])]
    ELSE IF pooling = "last"
    THEN [kind |-> "ok", value |-> Vector(x.data[Len(x.data)])]
    ELSE IF pooling = "lastlast"
    THEN IF Len(x.data) < 2
         THEN [kind |-> "IndexError"]
         ELSE [kind |-> "ok", value |-> Vector(x.data[Len(x.data) - 1])]
    ELSE [kind |-> "ok", value |-> x]

\* the metric names of scipy the model knows
Metrics == {"cityblock", "sqeuclidean"}

\* the distance of two vectors' data under a metric of Metrics
metric_distance(metric, u, v) ==
    IF metric = "cityblock"
    THEN RSum([j \in 1..Len(u) |-> RAbs(RSub(u[j], v[j]))])
    ELSE RSum([j \in 1..Len(u) |->
             RMul(RSub(u[j], v[j]), RSub(u[j], v[j]))])

\* np.asarray of a list of arrays of one shape: one more dimension
asarray(items) ==
    IF \A i \in 1..Len(items) : items[i].ndim = 1
    THEN Matrix([i \in 1..Len(items) |-> items[i].data])
    ELSE [ndim |-> 3, data |-> [i \in 1..Len(items) |-> items[i].data]]

\* np.atleast_2d: a vector becomes a matrix of one line
atleast_2d(x) == IF x.ndim = 1 THEN Matrix(<<x.data>>) ELSE x

\* scipy.spatial.distance.cdist: both operands must be matrices, the metric
\* known; the result is the matrix of the distances of the lines
cdist(XA, XB, metric) ==
    IF XA.ndim # 2 \/ XB.ndim # 2
    THEN ValueError("must be a 2-dimensional array")
    ELSE IF metric \notin Metrics
    THEN ValueError("Unknown Distance Metric")
    ELSE [kind |-> "ok",
          value |-> [i \in 1..Len(XA.data) |-> [j \in 1..Len(XB.data) |->
              metric_distance(metric, XA.data[i], XB.data[j])]]]

\* a call of cdist as the state records it
Call(XA, XB, metric) ==
    [XA |-> XA, XB |-> XB, out |-> cdist(XA, XB, metric)]

\* ndarray.mean() of a matrix of distances: the sum of the entries, line
\* after line, over their number
matrix_mean(m) ==
    LET total == RSum([i \in 1..Len(m) |-> RSum(m[i])])
    IN  Rat(total.num, total.den * Len(m) * Len(m[1]))

\* gold[gold['type'] == type][gold['word'] == word], in row order
tokens_of(gold, type, word) ==
    LET Test(r) == r.type = type /\ r.word = word
    IN  SelectSeq(gold, Test)

\* pool[pool['filename'].isin(tokens)]['pooling'].tolist()
isin(pool_frame, tokens) ==
    LET names == {tokens[i].filename : i \in 1..Len(tokens)}
        Test(r) == r.filename \in names
        rows == SelectSeq(pool_frame, Test)
    IN  [i \in 1..Len(rows) |-> rows[i].pooling]

\* line 150, for one word
within_bound(n) == 0 < n /\ n <= MaxTokens

\* line 156: the mean of the matrix cdist returned, or its exception
mean_of(call) ==
    IF Raised(call.out)
    THEN [kind |-> call.out.kind, calls |-> <<call>>]
    ELSE [kind |-> "ok", calls |-> <<call>>,
          value |-> matrix_mean(call.out.value)]

\* _compute_distance_librispeech, lines 142-156
compute_distance_librispeech(pair, gold, pool_frame, metric) ==
    IF ~(/\ within_bound(Len(tokens_of(gold, "librispeech", pair.word_1)))
         /\ within_bound(Len(tokens_of(gold, "librispeech", pair.word_2))))
    THEN [kind |-> "AssertionError", calls |-> <<>>]
    ELSE mean_of(Call(
             asarray(isin(pool_frame,
                 tokens_of(gold, "librispeech", pair.word_1))),
             asarray(isin(pool_frame,
                 tokens_of(gold, "librispeech", pair.word_2))), metric))

\* a mutation of the merge of line 167: every token with every token
merge_on_voice_cross(tokens_1, tokens_2) ==
    [k \in 1..(Len(tokens_1) * Len(tokens_2)) |->
        [filename_x |-> tokens_1[((k - 1) \div Len(tokens_2)) + 1].filename,
         filename_y |-> tokens_2[((k - 1) % Len(tokens_2)) + 1].filename]]

\* tokens_1.merge(tokens_2, on='voice'), line 167: the pairs of rows of one
\* voice, in the order of tokens_1 then of tokens_2
merge_on_voice(tokens_1, tokens_2) ==
    LET all == [k \in 1..(Len(tokens_1) * Len(tokens_2)) |->
            [x |-> tokens_1[((k - 1) \div Len(tokens_2)) + 1],
             y |-> tokens_2[((k - 1) % Len(tokens_2)) + 1]]]
        Test(r) == r.x.voice = r.y.voice
        rows == SelectSeq(all, Test)
    IN  [k \in 1..Len(rows) |->
            [filename_x |-> rows[k].x.filename,
             filename_y |-> rows[k].y.filename]]

\* pool[pool['filename'] == filename]['pooling'], before .item()
pooling_of(pool_frame, filename) ==
    LET Test(r) == r.filename = filename
        rows == SelectSeq(pool_frame, Test)
    IN  [i \in 1..Len(rows) |-> rows[i].pooling]

\* the first member of a sequence of outcomes that is an exception, or one
\* more than their number
first_raised(outcomes) ==
    IF \A k \in 1..Len(outcomes) : ~Raised(outcomes[k])
    THEN Len(outcomes) + 1
    ELSE CHOOSE k \in 1..Len(outcomes) :
             /\ Raised(outcomes[k])
             /\ \A j \in 1..(k - 1) : ~Raised(outcomes[j])

\* one turn of the loop of lines 171-175: the two .item() and the call of
\* cdist, or the exception of .item() when the pool has not one such row
loop_call(X, Y, metric) ==
    IF Len(X) # 1 \/ Len(Y) # 1
    THEN [made |-> FALSE, out |-> ValueError("can only convert an array")]
    ELSE [made |-> TRUE]
         @@ Call(atleast_2d(X[1]), atleast_2d(Y[1]), metric)

\* lines 170-176 for the turns of the loop: the mean of the distances and the
\* calls made, up to the first exception
loop_mean(turns) ==
    LET outs == [k \in 1..Len(turns) |-> turns[k].out]
        Made(k) == k <= first_raised(outs) /\ turns[k].made
        made == Cardinality({k \in 1..Len(turns) : Made(k)})
        calls == [k \in 1..made |->
            [XA |-> turns[k].XA, XB |-> turns[k].XB, out |-> turns[k].out]]
    IN  IF first_raised(outs) <= Len(turns)
        THEN [kind |-> "ValueError", calls |-> calls]
        ELSE IF turns = <<>>
        THEN [kind |-> "ZeroDivisionError", calls |-> calls]
        ELSE [kind |-> "ok", calls |-> calls,
              value |-> RDiv(RSum([k \in 1..Len(turns) |->
                                 turns[k].out.value[1][1]]), Len(turns))]

\* the turns of the loop for the merged tokens
synthetic_loop(tokens, pool_frame, metric) ==
    [k \in 1..Len(tokens) |->
        loop_call(pooling_of(pool_frame, tokens[k].filename_x),
                  pooling_of(pool_frame, tokens[k].filename_y), metric)]

\* _compute_distance_synthetic, lines 159-176
compute_distance_synthetic(pair, gold, pool_frame, metric) ==
    loop_mean(synthetic_loop(
        merge_on_voice(tokens_of(gold, "synthetic", pair.word_1),
                       tokens_of(gold, "synthetic", pair.word_2)),
        pool_frame, metric))

\* _compute_distance, lines 133-139
compute_distance(pair, gold, pool_frame, metric) ==
    IF pair.type = "librispeech"
    THEN compute_distance_librispeech(pair, gold, pool_frame, metric)
    ELSE IF pair.type = "synthetic"
    THEN compute_distance_synthetic(pair, gold, pool_frame, metric)
    ELSE [kind |-> "KeyError", calls |-> <<>>]

\* a read of the content of a file, as the state records it
Read(file, type, filename) ==
    [file |-> file, type |-> type, filename |-> filename]

\* a mutation of the generator of lines 265-271: the content of a file is
\* kept, and a file already read is not read again
read_files_once(gold, pooled) ==
    LET First(i) == \A k \in 1..(i - 1) :
            <<gold[k].type, gold[k].filename>> #
                <<gold[i].type, gold[i].filename>>
        read == SortedSeq({i \in 1..Len(gold) :
                    /\ i <= first_raised(pooled)
                    /\ pooled[i].kind # "OSError"
                    /\ First(i)})
    IN  [i \in 1..Len(read) |->
            Read("feature", gold[read[i]].type, gold[read[i]].filename)]

\* the files the generator of lines 265-271 read: one for each gold row in
\* order, up to the first exception
read_files(gold, pooled) ==
    LET read == Cardinality({i \in 1..Len(gold) :
                    i <= first_raised(pooled) /\ pooled[i].kind # "OSError"})
    IN  [i \in 1..read |-> Read("feature", gold[i].type, gold[i].filename)]

\* lines 265-271 with one job, for one gold row: the file
\* submission_dir/type/filename.txt is loaded and pooled
pooled_row(x, dir, pooling) ==
    IF <<x.type, x.filename>> \notin DOMAIN dir.files
    THEN [kind |-> "OSError"]
    ELSE pooling_function(pooling, loadtxt(dir.files[<<x.type, x.filename>>]))

\* the data frame of lines 263-271 once each row is pooled: its rows up to
\* the first exception, and the files read
pool_frame_of(gold, pooled) ==
    [kind |-> IF first_raised(pooled) > Len(gold) THEN "ok"
              ELSE pooled[first_raised(pooled)].kind,
     reads |-> read_files(gold, pooled),
     pool |-> [i \in 1..(first_raised(pooled) - 1) |->
         [filename |-> gold[i].filename, type |-> gold[i].type,
          pooling |-> pooled[i].value]]]

\* lines 263-271
load_pool(gold, dir, pooling) ==
    pool_frame_of(gold,
        [i \in 1..Len(gold) |-> pooled_row(gold[i], dir, pooling)])

\* the sequences of a sequence, one after the other
RECURSIVE Flatten(_)
Flatten(s) == IF s = <<>> THEN <<>> ELSE Head(s) \o Flatten(Tail(s))

\* lines 274-276 for the outcomes of _compute_distance: the scores and the
\* calls of cdist up to the first exception
scores_of(d) ==
    [kind |-> IF first_raised(d) > Len(d) THEN "ok"
              ELSE d[first_raised(d)].kind,
     score |-> [i \in 1..(first_raised(d) - 1) |-> d[i].value],
     calls |-> Flatten([i \in 1..Len(d) |->
                  IF i <= first_raised(d) THEN d[i].calls ELSE <<>>])]

\* lines 274-276: the score of each pair in order
compute_scores(pair_rows, gold, pool_frame, metric) ==
    scores_of([i \in 1..Len(pair_rows) |->
        compute_distance(pair_rows[i], gold, pool_frame, metric)])

\* twice the rank scipy's rankdata gives s[i]: ties share the mean rank
rank2(s, i) ==
    2 * Cardinality({k \in 1..Len(s) : RLess(s[k], s[i])})
    + Cardinality({k \in 1..Len(s) : s[k] = s[i]}) + 1

ISum(s) == RSum([i \in 1..Len(s) |-> Rat(s[i], 1)]).num

\* scipy.stats.spearmanr(a, b)[0], the Pearson correlation of the ranks,
\* kept as its sign and its square: NaN when a rank is constant
spearmanr(a, b) ==
    LET n == Len(a)
        ra == [i \in 1..n |-> rank2(a, i)]
        rb == [i \in 1..n |-> rank2(b, i)]
        cov == n * ISum([i \in 1..n |-> ra[i] * rb[i]]) - ISum(ra) * ISum(rb)
        va == n * ISum([i \in 1..n |-> ra[i] * ra[i]]) - ISum(ra) * ISum(ra)
        vb == n * ISum([i \in 1..n |-> rb[i] * rb[i]]) - ISum(rb) * ISum(rb)
    IN  IF va = 0 \/ vb = 0 THEN NaN
        ELSE Some([sign |-> IF cov > 0 THEN 1 ELSE IF cov < 0 THEN -1 ELSE 0,
                   square |-> Rat(cov * cov, va * vb)])

\* k times a correlation kept as its sign and its square, k > 0
times(k, rho) ==
    IF rho = NaN THEN NaN
    ELSE Some([sign |-> Val(rho).sign,
               square |-> RScale(Val(rho).square, k * k)])

\* a mutation of line 187: the human score as it is given
human_as_given(v) == Rat(v, 1)

\* line 187: '- human.to_numpy()', for one score
opposite(v) == Rat(-v, 1)

\* _correlation, lines 179-188, of the rows of one group: 100 times the
\* correlation of the opposite of the human score with the machine score
correlation_of(rows) ==
    LET relatedness_hasnans == \E i \in 1..Len(rows) : rows[i].relatedness = NaN
        human == [i \in 1..Len(rows) |->
            IF relatedness_hasnans THEN rows[i].similarity
            ELSE rows[i].relatedness]
    IN  IF \E i \in 1..Len(rows) : human[i] = NaN
        THEN [kind |-> "AssertionError"]
        ELSE [kind |-> "ok",
              value |-> times(100, spearmanr(
                  [i \in 1..Len(rows) |-> opposite(Val(human[i]))],
                  [i \in 1..Len(rows) |-> rows[i].score]))]

\* the keys of groupby([type, dataset]) in increasing order
group_keys(pair_rows) ==
    LET DatasetsOf(t) == SortedSeq({pair_rows[i].dataset : i \in
                             {k \in 1..Len(pair_rows) : pair_rows[k].type = t}})
        KeysOf(t) == [i \in 1..Len(DatasetsOf(t)) |-> <<t, DatasetsOf(t)[i]>>]
    IN  KeysOf("librispeech") \o KeysOf("synthetic")

\* the frame [type, dataset, correlation] of lines 196-197 for the outcomes
\* of _correlation, or the first exception
correlation_frame(keys, c) ==
    IF first_raised(c) <= Len(c)
    THEN [kind |-> c[first_raised(c)].kind]
    ELSE [kind |-> "ok",
          frame |-> [i \in 1..Len(keys) |->
              [type |-> keys[i][1], dataset |-> keys[i][2],
               correlation |-> c[i].value]]]

\* the rows of one group of groupby([type, dataset])
group_of(pair_rows, key) ==
    LET Test(r) == r.type = key[1] /\ r.dataset = key[2]
    IN  SelectSeq(pair_rows, Test)

\* _compute_correlation, lines 191-197
compute_correlation(pair_rows) ==
    correlation_frame(group_keys(pair_rows),
        [i \in 1..Len(group_keys(pair_rows)) |->
            correlation_of(group_of(pair_rows, group_keys(pair_rows)[i]))])

\* lines 274-276: the pairs with their 'score' column
with_score(pair_rows, score) ==
    [i \in 1..Len(score) |->
        [type |-> pair_rows[i].type, dataset |-> pair_rows[i].dataset,
         word_1 |-> pair_rows[i].word_1, word_2 |-> pair_rows[i].word_2,
         similarity |-> pair_rows[i].similarity,
         relatedness |-> pair_rows[i].relatedness,
         score |-> score[i]]]

\* the files read by lines 260-261
tables_read == <<Read("pairs", "", ""), Read("gold", "", "")>>

\* evaluate, lines 200-281, with one job, given what lines 263-271 (loaded),
\* lines 274-276 (scores) and line 280 (correlation) compute: what the call
\* leaves in reads, pool and cdists, and what it returns or raises
evaluate(args, loaded, scores, correlation) ==
    IF ~args.gold_file.is_file \/ ~args.pairs_file.is_file
    THEN [reads |-> <<>>, pool |-> <<>>, cdists |-> <<>>,
          out |-> ValueError("file not found")]
    ELSE IF ~args.submission_dir.is_dir
    THEN [reads |-> <<>>, pool |-> <<>>, cdists |-> <<>>,
          out |-> ValueError("is not a directory")]
    ELSE IF args.pooling \notin PoolingNames
    THEN [reads |-> <<>>, pool |-> <<>>, cdists |-> <<>>,
          out |-> ValueError("pooling method must be")]
    ELSE IF Raised(loaded)
    THEN [reads |-> tables_read \o loaded.reads, pool |-> loaded.pool,
          cdists |-> <<>>, out |-> [kind |-> loaded.kind]]
    ELSE IF Raised(scores)
    THEN [reads |-> tables_read \o loaded.reads, pool |-> loaded.pool,
          cdists |-> scores.calls, out |-> [kind |-> scores.kind]]
    ELSE IF Raised(correlation)
    THEN [reads |-> tables_read \o loaded.reads, pool |-> loaded.pool,
          cdists |-> scores.calls, out |-> [kind |-> correlation.kind]]
    ELSE [reads |-> tables_read \o loaded.reads, pool |-> loaded.pool,
          cdists |-> scores.calls,
          out |-> [kind |-> "ok",
                   pairs |-> with_score(args.pairs_file.frame, scores.score),
                   correlation |-> correlation.frame]]

\* one call of semantic.evaluate on the arguments of the state
SemanticEvaluate ==
    /\ evaluated = NoOutcome
    /\ \E loaded \in {load_pool(arguments.gold_file.frame,
                          arguments.submission_dir, arguments.pooling)} :
       \E scores \in {IF Raised(loaded)
                      THEN [kind |-> "none", score |-> <<>>, calls |-> <<>>]
                      ELSE compute_scores(arguments.pairs_file.frame,
                               arguments.gold_file.frame, loaded.pool,
                               arguments.metric)} :
       \E correlation \in {compute_correlation(
                          with_score(arguments.pairs_file.frame,
                                     scores.score))} :
       \E e \in {evaluate(arguments, loaded, scores, correlation)} :
        /\ reads' = e.reads
        /\ pool' = e.pool
        /\ cdists' = e.cdists
        /\ evaluated' = e.out
    /\ UNCHANGED arguments
    /\ UNCHANGED validate_vars
    /\ UNCHANGED evaluate_vars
    /\ UNCHANGED leaderboard_vars
    /\ UNCHANGED other_vars

\* ---------------------------------------------- inputs of semantic.evaluate
\* The gold table gives one type (the focus) a word "a" of n_1 tokens and a
\* word "b" of n_2 tokens, the other type one token a word; the voices of the
\* tokens of a word alternate.  A variant repeats a row of the gold, gives a
\* file name to both types, or leaves a feature file out of the submission.

FileNames ==
    <<"f01", "f02", "f03", "f04", "f05", "f06", "f07", "f08", "f09", "f10",
      "f11", "f12", "f13", "f14", "f15", "f16", "f17">>

Voices == <<"v1", "v2">>

Types == {"librispeech", "synthetic"}

Other(type) == IF type = "librispeech" THEN "synthetic" ELSE "librispeech"

TokenCounts == {0, 1, 2, MaxTokens, MaxTokens + 1}

Tokens(type, word, n, start) ==
    [i \in 1..n |->
        [type |-> type, filename |-> FileNames[start + i],
         voice |-> Voices[((i - 1) % Len(Voices)) + 1], word |-> word]]

PlainGold(focus, n_1, n_2) ==
    Tokens(focus, "a", n_1, 0) \o Tokens(focus, "b", n_2, MaxTokens + 1)
    \o Tokens(Other(focus), "a", 1, MaxTokens + 3)
    \o Tokens(Other(focus), "b", 1, MaxTokens + 4)

GoldVariants == {"plain", "repeated", "shared", "missing"}

GoldTable(focus, n_1, n_2, variant) ==
    LET plain == PlainGold(focus, n_1, n_2)
    IN  CASE variant = "repeated" -> plain \o <<plain[1]>>
          [] variant = "shared" ->
                [i \in 1..Len(plain) |->
                    IF plain[i].type = Other(focus) /\ plain[i].word = "a"
                    THEN [plain[i] EXCEPT !.filename = plain[1].filename]
                    ELSE plain[i]]
          [] OTHER -> plain

\* feature matrices of two columns and two or three frames
Features ==
    << << <<0, 0>>, <<1, 2>> >>,
       << <<2, 1>>, <<0, 3>>, <<1, 1>> >>,
       << <<3, 0>>, <<2, 2>> >>,
       << <<1, 3>>, <<1, 0>>, <<4, 2>> >>,
       << <<0, 2>>, <<3, 3>> >> >>

FileIndex(name) == CHOOSE k \in 1..Len(FileNames) : FileNames[k] = name

\* the files <type>/<filename>.txt of the submission for a gold table
Submission(gold, variant, seed) ==
    LET paths == {<<gold[i].type, gold[i].filename>> : i \in 1..Len(gold)}
        kept == IF variant = "missing"
                THEN paths \ {<<gold[Len(gold)].type,
                                gold[Len(gold)].filename>>}
                ELSE paths
    IN  [is_dir |-> TRUE,
         files |-> [p \in kept |->
             Features[((FileIndex(p[2]) + seed
                 + (IF p[1] = "synthetic" THEN 2 ELSE 0)) % Len(Features)) + 1]]]

Pair(type, dataset, word_1, word_2, similarity, relatedness) ==
    [type |-> type, dataset |-> dataset, word_1 |-> word_1,
     word_2 |-> word_2, similarity |-> similarity,
     relatedness |-> relatedness]

PairsTables(focus) ==
    { <<Pair(focus, 1, "a", "b", Some(3), NaN)>>,
      <<Pair(focus, 1, "b", "a", Some(3), NaN)>>,
      <<Pair(focus, 1, "a", "b", Some(3), NaN),
        Pair(focus, 1, "b", "b", Some(1), NaN),
        Pair(focus, 1, "a", "a", Some(2), NaN)>>,
      <<Pair(focus, 1, "a", "b", Some(1), NaN),
        Pair(focus, 1, "b", "b", Some(2), NaN),
        Pair(focus, 1, "a", "a", Some(3), NaN)>>,
      <<Pair("librispeech", 1, "a", "b", Some(1), NaN),
        Pair("synthetic", 2, "a", "b", Some(2), NaN),
        Pair("synthetic", 1, "a", "a", Some(4), NaN),
        Pair("librispeech", 1, "b", "b", Some(3), NaN)>>,
      <<Pair(focus, 1, "a", "b", NaN, Some(1)),
        Pair(focus, 1, "b", "b", NaN, Some(2))>>,
      <<Pair(focus, 1, "a", "b", NaN, NaN)>> }

\* the pooling and metric arguments: every accepted name and unknown ones
Methods ==
    {<<p, "cityblock">> : p \in PoolingNames \cup {"median"}}
    \cup {<<"mean", m>> : m \in Metrics \cup {"nosuch"}}

Seeds == {0, 1}

\* ------------------------------------------------- cli/evaluate.py
\* The command evaluates the tasks in turn; each eval_<task> calls the task's
\* evaluate for each kind and writes its tables.  What a step does inside is
\* left out: a run is given the step that raises, if one does (fault), and
\* the exception it raises.

\* the f-strings of lines 33-38, 55-60, 72-75 and 90: the file
\* score_<task>_<kind>_<table>.csv, score_phonetic.csv having no kind
Csv(task, k, table) == <<"score", task, k, table>>

\* the tables each kind of a task gives, in the order they are written
Tables(task) ==
    CASE task = "lexical" -> <<"by_pair", "by_frequency", "by_length">>
      [] task = "semantic" -> <<"pairs", "correlation">>
      [] task = "syntactic" -> <<"by_pair", "by_type">>
      [] task = "phonetic" -> <<>>

\* the steps of eval_lexical, eval_semantic and eval_syntactic for one kind:
\* the call of evaluate (stage 1), then a write_csv a table (stage 2, 3, ..)
KindSteps(task, k) ==
    <<[kind |-> k, stage |-> 1, writes |-> {}]>>
    \o [i \in 1..Len(Tables(task)) |->
           [kind |-> k, stage |-> i + 1,
            writes |-> {Csv(task, k, Tables(task)[i])}]]

\* the loading of meta.yaml by eval_semantic and eval_phonetic (stage 0)
MetaStep(task) ==
    IF task \in {"semantic", "phonetic"}
    THEN <<[kind |-> "", stage |-> 0, writes |-> {}]>>
    ELSE <<>>

\* the steps of eval_<task>, in order: eval_phonetic evaluates every kind
\* and then writes one table
Steps(task, kinds) ==
    MetaStep(task)
    \o (IF task = "phonetic"
        THEN [i \in 1..Len(kinds) |->
                 [kind |-> kinds[i], stage |-> 1, writes |-> {}]]
             \o <<[kind |-> "", stage |-> 2,
                   writes |-> {Csv("phonetic", "", "")}]>>
        ELSE Flatten([i \in 1..Len(kinds) |-> KindSteps(task, kinds[i])]))

\* the step of a task the fault stops, or one more than their number
Stopped(steps, task, f) ==
    IF f # NaN /\ Val(f).task = task
          /\ \E i \in 1..Len(steps) :
                steps[i].kind = Val(f).kind /\ steps[i].stage = Val(f).stage
    THEN CHOOSE i \in 1..Len(steps) :
             steps[i].kind = Val(f).kind /\ steps[i].stage = Val(f).stage
    ELSE Len(steps) + 1

\* a mutation of eval_<task>: the tables are written once every step is done
eval_task_at_end(task, kinds, f) ==
    LET steps == Steps(task, kinds)
        stop == Stopped(steps, task, f)
    IN  [written |-> IF stop <= Len(steps) THEN {}
                     ELSE UNION {steps[i].writes : i \in 1..Len(steps)},
         raised |-> IF stop <= Len(steps) THEN Some(Val(f).error) ELSE NaN]

\* eval_lexical (lines 23-38), eval_semantic (41-60), eval_syntactic (63-75),
\* eval_phonetic (78-90): the files written, and the exception that stops it
eval_task(task, kinds, f) ==
    LET steps == Steps(task, kinds)
        stop == Stopped(steps, task, f)
    IN  [written |-> UNION {steps[i].writes : i \in 1..(stop - 1)},
         raised |-> IF stop <= Len(steps) THEN Some(Val(f).error) ELSE NaN]

\* lines 154-166: the task after a task
Following(task) ==
    CASE task = "lexical" -> "semantic"
      [] task = "semantic" -> "syntactic"
      [] task = "syntactic" -> "phonetic"
      [] task = "phonetic" -> "done"

\* lines 154-168 for one task: eval_<task> is called unless the task is
\* switched off; ValueError ends the command by sys.exit(-1), another
\* exception leaves it
EvalTask(task) ==
    /\ running = task
    /\ \E e \in {IF task \in options.skipped
                 THEN [written |-> {}, raised |-> NaN]
                 ELSE eval_task(task, options.kinds, fault)} :
        /\ output_directory' = output_directory \cup e.written
        /\ running' = IF e.raised = NaN THEN Following(task)
                      ELSE IF Val(e.raised) = "ValueError" THEN "exit"
                      ELSE "raised"
    /\ UNCHANGED <<options, fault>>
    /\ UNCHANGED scoring_vars
    /\ UNCHANGED features_vars
    /\ UNCHANGED meta_vars
    /\ UNCHANGED upload_vars

EvalLexical == EvalTask("lexical")

EvalSemantic == EvalTask("semantic")

EvalSyntactic == EvalTask("syntactic")

EvalPhonetic == EvalTask("phonetic")

\* --------------------------------------------- inputs of the command
Tasks == {"lexical", "semantic", "syntactic", "phonetic"}

\* line 119 and lines 120-122: test is evaluated when the gold is given
KindsLists == {<<"dev">>, <<"dev", "test">>}

\* the steps that may raise and what they raise: ValueError, or an exception
\* the command does not catch
Faults(kinds) ==
    {NaN} \cup UNION {
        {Some([task |-> t, kind |-> Steps(t, kinds)[i].kind,
               stage |-> Steps(t, kinds)[i].stage, error |-> e]) :
            i \in 1..Len(Steps(t, kinds)), e \in {"ValueError", "OSError"}} :
        t \in Tasks}

\* ------------------------------- semantic.validate and phonetic.validate
\* A submitted or required file is [stem, suffix]; the sequences required and
\* submitted give the files in the order the code iterates on them.  The
\* content of <stem>.txt is [status, ncols]: "ok" for a 2-D array of floats,
\* "missing" when it is no regular file, "invalid" when np.loadtxt raises,
\* "not_2d" for an array of another dimension.

\* semantic.py line 120 and phonetic.py line 159: errors[:10]
MaxPrinted == 10

ValidationError(message) == [kind |-> "ValidationError", message |-> message]

\* _validate_file of semantic.py lines 15-42 and of phonetic.py lines 72-111:
\* the pair (error, ncols), the error NaN for a valid file
validate_file(stem, files) ==
    IF stem \notin DOMAIN files \/ files[stem].status = "missing"
    THEN [error |-> Some([kind |-> "EntryMissingError", file |-> stem]),
          ncols |-> NaN]
    ELSE IF files[stem].status = "invalid"
    THEN [error |-> Some([kind |-> "FileFormatError", file |-> stem]),
          ncols |-> NaN]
    ELSE IF files[stem].status = "not_2d"
    THEN [error |-> Some([kind |-> "FileFormatError", file |-> stem]),
          ncols |-> NaN]
    ELSE [error |-> NaN, ncols |-> Some(files[stem].ncols)]

\* [e for e in errors if e]
detected(results) ==
    LET Test(r) == r.error # NaN
        kept == SelectSeq(results, Test)
    IN  [i \in 1..Len(kept) |-> Val(kept[i].error)]

Line(what, arg) == [what |-> what, arg |-> arg]

\* for e in errors[:10]: print(f'ERROR: {e}')
print_errors(errors) ==
    [i \in 1..(IF Len(errors) < MaxPrinted THEN Len(errors) ELSE MaxPrinted)
        |-> Line("ERROR", Some(errors[i]))]

\* a mutation of phonetic.py line 162: the number of errors is printed
print_more_total(errors) ==
    IF Len(errors) > MaxPrinted
    THEN <<Line("ERROR: ... and more!", Some(Len(errors)))>>
    ELSE <<>>

\* phonetic.py lines 161-162: an f-string, the number of errors left
phonetic_print_more(errors) ==
    IF Len(errors) > MaxPrinted
    THEN <<Line("ERROR: ... and more!", Some(Len(errors) - MaxPrinted))>>
    ELSE <<>>

\* semantic.py lines 122-123: the string is no f-string, the text between
\* the braces is printed as it is and no number
semantic_print_more(errors) ==
    IF Len(errors) > MaxPrinted
    THEN <<Line("ERROR: ... and {len(errors - 10)} more!", NaN)>>
    ELSE <<>>

Stems(files) == [i \in 1..Len(files) |-> files[i].stem]

NumberOfColumns(results) ==
    {results[i].ncols : i \in 1..Len(results)}

\* semantic.validate, lines 45-130: the files checked, the lines printed and
\* the outcome
semantic_validate(c, results) ==
    IF c.kind \notin {"dev", "test"}
    THEN [checked |-> <<>>, printed |-> <<>>,
          out |-> ValueError("kind must be dev or test")]
    ELSE IF c.subset \notin {"librispeech", "synthetic"}
    THEN [checked |-> <<>>, printed |-> <<>>,
          out |-> ValueError("subset must be librispeech or synthetic")]
    ELSE IF ~c.submission_is_dir
    THEN [checked |-> <<>>, printed |-> <<>>,
          out |-> ValueError("submission directory not found")]
    ELSE IF ~c.dataset_is_dir
    THEN [checked |-> <<>>, printed |-> <<>>,
          out |-> ValueError("dataset not found")]
    ELSE IF c.required = <<>>
    THEN [checked |-> <<>>, printed |-> <<>>,
          out |-> ValidationError("contains no .wav files")]
    ELSE IF c.submitted = <<>>
    THEN [checked |-> <<>>, printed |-> <<>>,
          out |-> ValidationError("contains no files")]
    ELSE IF \E i \in 1..Len(c.submitted) : c.submitted[i].suffix # ".txt"
    THEN [checked |-> <<>>, printed |-> <<>>,
          out |-> MismatchError("extra files found", {},
                      {f \in Range(c.submitted) : f.suffix # ".txt"})]
    ELSE IF Range(Stems(c.submitted)) # Range(Stems(c.required))
    THEN [checked |-> <<>>, printed |-> <<>>,
          out |-> MismatchError("files mismatch", Range(Stems(c.required)),
                      Range(Stems(c.submitted)))]
    ELSE IF detected(results) # <<>>
    THEN [checked |-> Stems(c.submitted),
          printed |-> print_errors(detected(results))
                      \o semantic_print_more(detected(results)),
          out |-> ValidationError("error detected in phonetic")]
    ELSE IF Cardinality(NumberOfColumns(results)) # 1
    THEN [checked |-> Stems(c.submitted), printed |-> <<>>,
          out |-> ValidationError("all files must have the same number")]
    ELSE [checked |-> Stems(c.submitted), printed |-> <<>>,
          out |-> [kind |-> "ok"]]

\* phonetic.validate, lines 114-178: the dataset files are the required ones
phonetic_validate(c, results) ==
    IF c.kind \notin {"dev", "test"}
    THEN [checked |-> <<>>, printed |-> <<>>,
          out |-> ValueError("kind must be dev or test")]
    ELSE IF c.required = <<>>
    THEN [checked |-> <<>>, printed |-> <<>>,
          out |-> ValidationError("found no wav files")]
    ELSE IF c.submitted = <<>>
    THEN [checked |-> <<>>, printed |-> <<>>,
          out |-> ValidationError("found no files")]
    ELSE IF \E i \in 1..Len(c.submitted) : c.submitted[i].suffix # ".txt"
    THEN [checked |-> <<>>, printed |-> <<>>,
          out |-> MismatchError("extra files found", {},
                      {f \in Range(c.submitted) : f.suffix # ".txt"})]
    ELSE IF \E i \in 1..Len(c.submitted) : Count(c.submitted, c.submitted[i]) > 1
    THEN [checked |-> <<>>, printed |-> <<>>,
          out |-> MismatchError("duplicates found", {},
                      {f \in Range(c.submitted) : Count(c.submitted, f) > 1})]
    ELSE IF detected(results) # <<>>
    THEN [checked |-> Stems(c.required),
          printed |-> print_errors(detected(results))
                      \o phonetic_print_more(detected(results)),
          out |-> ValidationError("error detected in phonetic")]
    ELSE IF Cardinality(NumberOfColumns(results)) # 1
    THEN [checked |-> Stems(c.required), printed |-> <<>>,
          out |-> ValidationError("all files must have the same number")]
    ELSE IF Range(Stems(c.submitted)) # Range(Stems(c.required))
    THEN [checked |-> Stems(c.required), printed |-> <<>>,
          out |-> MismatchError("mismatch in filenames",
                      Range(Stems(c.required)), Range(Stems(c.submitted)))]
    ELSE [checked |-> Stems(c.required), printed |-> <<>>,
          out |-> [kind |-> "ok"]]

\* one call of semantic.validate: _validate_file runs on every submitted file
SemanticValidate ==
    /\ validation = NoOutcome
    /\ \E v \in {semantic_validate(checking,
                    [i \in 1..Len(checking.submitted) |->
                        validate_file(checking.submitted[i].stem,
                                      checking.files)])} :
        /\ checked' = v.checked
        /\ printed' = v.printed
        /\ validation' = v.out
    /\ UNCHANGED checking
    /\ UNCHANGED scoring_vars
    /\ UNCHANGED command_vars
    /\ UNCHANGED meta_vars
    /\ UNCHANGED upload_vars

\* one call of phonetic.validate: _validate_file runs on every dataset file
PhoneticValidate ==
    /\ validation = NoOutcome
    /\ \E v \in {phonetic_validate(checking,
                    [i \in 1..Len(checking.required) |->
                        validate_file(checking.required[i].stem,
                                      checking.files)])} :
        /\ checked' = v.checked
        /\ printed' = v.printed
        /\ validation' = v.out
    /\ UNCHANGED checking
    /\ UNCHANGED scoring_vars
    /\ UNCHANGED command_vars
    /\ UNCHANGED meta_vars
    /\ UNCHANGED upload_vars

\* ------------------------------------------- inputs of the two validate
\* n required files, all submitted; the errors are the first, the last or
\* every other file, k of them, of the two kinds in turn

FileCounts == {1, 2, 3, MaxPrinted, MaxPrinted + 1, MaxPrinted + 2}

Entry(i, suffix) == [stem |-> FileNames[i], suffix |-> suffix]

InError(i, n, k, where) ==
    CASE where = "first" -> i <= k
      [] where = "last" -> i > n - k
      [] where = "spread" -> (i % 2 = 1 /\ (i + 1) \div 2 <= k)
                             \/ (i % 2 = 0 /\ i \div 2 <= k - ((n + 1) \div 2))

Content(i, n, k, where, odd) ==
    IF InError(i, n, k, where)
    THEN [status |-> <<"invalid", "missing", "not_2d">>[(i % 3) + 1],
          ncols |-> 0]
    ELSE [status |-> "ok", ncols |-> IF i = odd THEN 3 ELSE 2]

Checking(n, k, where, odd) ==
    [kind |-> "dev", subset |-> "librispeech",
     submission_is_dir |-> TRUE, dataset_is_dir |-> TRUE,
     required |-> [i \in 1..n |-> Entry(i, ".wav")],
     submitted |-> [i \in 1..n |-> Entry(n + 1 - i, ".txt")],
     files |-> [name \in {FileNames[i] : i \in 1..n} |->
                  Content(FileIndex(name), n, k, where, odd)]]

PlainChecking == Checking(2, 0, "first", 0)

\* arguments on which a check made before the files fails
Refused ==
    { [PlainChecking EXCEPT !.kind = "train"],
      [PlainChecking EXCEPT !.subset = "other"],
      [PlainChecking EXCEPT !.submission_is_dir = FALSE],
      [PlainChecking EXCEPT !.dataset_is_dir = FALSE],
      [PlainChecking EXCEPT !.required = <<>>],
      [PlainChecking EXCEPT !.submitted = <<>>],
      [PlainChecking EXCEPT !.submitted = @ \o <<Entry(3, ".npy")>>],
      [PlainChecking EXCEPT !.submitted = @ \o <<Entry(3, ".txt")>>],
      [PlainChecking EXCEPT !.submitted = @ \o <<Entry(1, ".txt")>>],
      [PlainChecking EXCEPT !.submitted = <<Entry(1, ".txt")>>] }

\* ------------------------------------ meta.validate and Metadata.create_from
\* What yaml reads from meta.yaml is [kind |-> "missing"] without file,
\* "unparsable", "empty" (None), "list" or [kind |-> "dict", entries |-> e],
\* e a function from the keys to values [type, value].  A value of type
\* "dict" names its dictionary in Dicts.

Value(type, value) == [type |-> type, value |-> value]

\* the nested dictionaries a meta.yaml of the model can hold
Dicts ==
    [parameters |->
        [k \in {"phonetic", "semantic"} |-> Value("dict", k)],
     parameters_other |->
        [k \in {"phonetic"} |-> Value("dict", k)],
     parameters_metric |->
        [k \in {"phonetic", "semantic"} |->
            Value("dict", IF k = "semantic" THEN "semantic_metric" ELSE k)],
     parameters_shift |->
        [k \in {"phonetic", "semantic"} |->
            Value("dict", IF k = "phonetic" THEN "phonetic_shift" ELSE k)],
     phonetic |->
        [k \in {"metric", "frame_shift"} |->
            IF k = "metric" THEN Value("str", "cosine")
            ELSE Value("float", "0.01")],
     phonetic_shift |->
        [k \in {"metric", "frame_shift"} |->
            IF k = "metric" THEN Value("str", "cosine")
            ELSE Value("int", "1")],
     semantic |->
        [k \in {"metric", "pooling"} |->
            IF k = "metric" THEN Value("str", "euclidean")
            ELSE Value("str", "max")],
     semantic_metric |->
        [k \in {"metric", "pooling"} |->
            IF k = "metric" THEN Value("str", "unknown")
            ELSE Value("str", "max")]]

\* metric names scipy.spatial.distance.cdist knows, among those of the model
ScipyMetrics == {"cosine", "euclidean", "cityblock", "sqeuclidean"}

\* meta.py lines 21-37: _validate_entry
validate_entry(items, name, expected_type, values) ==
    IF name \notin DOMAIN items
    THEN ValidationError(<<name, "section missing">>)
    ELSE IF items[name].type # expected_type
    THEN ValidationError(<<name, "must be a", expected_type>>)
    ELSE IF values # {} /\ items[name].value \notin values
    THEN ValidationError(<<name, "must be in", values>>)
    ELSE IF expected_type = "str" /\ items[name].value = ""
    THEN ValidationError(<<name, "must not be an empty string">>)
    ELSE [kind |-> "ok"]

\* meta.py lines 10-18: _validate_entries, expected a sequence of
\* <<key, type, values>> in the order of the dictionary
validate_entries(items, expected) ==
    IF DOMAIN items # {expected[i][1] : i \in 1..Len(expected)}
    THEN MismatchError("invalid items",
             {expected[i][1] : i \in 1..Len(expected)}, DOMAIN items)
    ELSE LET results == [i \in 1..Len(expected) |->
                 validate_entry(items, expected[i][1], expected[i][2],
                                expected[i][3])]
         IN  IF \E i \in 1..Len(results) : Raised(results[i])
             THEN results[CHOOSE i \in 1..Len(results) :
                     /\ Raised(results[i])
                     /\ \A j \in 1..(i - 1) : ~Raised(results[j])]
             ELSE [kind |-> "ok"]

\* meta.py lines 40-46: _validate_scipy_metric
validate_scipy_metric(metric) ==
    IF metric \in ScipyMetrics THEN [kind |-> "ok"]
    ELSE ValidationError(<<"invalid metric for semantic", metric>>)

\* meta.py lines 89-97: the top level entries validate requires
TopLevelEntries ==
    <<<<"author", "str", {}>>, <<"affiliation", "str", {}>>,
      <<"description", "str", {}>>, <<"open_source", "bool", {}>>,
      <<"train_set", "str", {}>>, <<"budget", "float", {}>>,
      <<"parameters", "dict", {}>>>>

\* a mutation of the top level entries: the fields of Metadata
TopLevelFields ==
    <<<<"author", "str", {}>>, <<"affiliation", "str", {}>>,
      <<"description", "str", {}>>, <<"open_source", "bool", {}>>,
      <<"train_set", "str", {}>>, <<"gpu_budget", "float", {}>>,
      <<"visually_grounded", "bool", {}>>, <<"parameters", "dict", {}>>>>

\* meta.py lines 100-119: the entries under parameters
validate_parameters(name) ==
    IF Raised(validate_entries(Dicts[name],
           <<<<"phonetic", "dict", {}>>, <<"semantic", "dict", {}>>>>))
    THEN validate_entries(Dicts[name],
             <<<<"phonetic", "dict", {}>>, <<"semantic", "dict", {}>>>>)
    ELSE IF Raised(validate_entries(Dicts[Dicts[name]["phonetic"].value],
           <<<<"metric", "str", {"cosine", "euclidean", "kl", "kl_symmetric"}>>,
             <<"frame_shift", "float", {}>>>>))
    THEN validate_entries(Dicts[Dicts[name]["phonetic"].value],
           <<<<"metric", "str", {"cosine", "euclidean", "kl", "kl_symmetric"}>>,
             <<"frame_shift", "float", {}>>>>)
    ELSE IF Raised(validate_entries(Dicts[Dicts[name]["semantic"].value],
           <<<<"metric", "str", {}>>,
             <<"pooling", "str", {"min", "max", "mean"}>>>>))
    THEN validate_entries(Dicts[Dicts[name]["semantic"].value],
           <<<<"metric", "str", {}>>,
             <<"pooling", "str", {"min", "max", "mean"}>>>>)
    ELSE validate_scipy_metric(
             Dicts[Dicts[name]["semantic"].value]["metric"].value)

\* meta.py lines 49-121: validate, which returns open_source
meta_validate(yaml) ==
    IF yaml.kind = "missing"
    THEN ValidationError("missing meta.yaml file")
    ELSE IF yaml.kind = "unparsable"
    THEN ValidationError("failed to parse")
    ELSE IF yaml.kind # "dict" \/ DOMAIN yaml.entries = {}
    THEN ValidationError("meta.yaml file is not valid")
    ELSE IF Raised(validate_entries(yaml.entries, TopLevelEntries))
    THEN validate_entries(yaml.entries, TopLevelEntries)
    ELSE IF Raised(validate_parameters(yaml.entries["parameters"].value))
    THEN validate_parameters(yaml.entries["parameters"].value)
    ELSE [kind |-> "ok", open_source |-> yaml.entries["open_source"].value]

\* leaderboard.py lines 260-267: the fields of Metadata without default
RequiredFields ==
    {"author", "affiliation", "description", "open_source", "train_set",
     "gpu_budget", "visually_grounded", "parameters"}

\* leaderboard.py lines 268-270 and 296-300: the fields with a default, all
\* three given by filter_external_meta
ExternalFields == {"submission_id", "submission_date", "submitted_by"}

TypeError(message, names) ==
    [kind |-> "TypeError", message |-> message, names |-> names]

\* leaderboard.py lines 302-310: create_from on what yaml reads, that is
\* cls(**meta, **external_meta) with the __init__ of the dataclass
metadata_create_from(yaml) ==
    IF yaml.kind = "missing"
    THEN [kind |-> "FileNotFoundError", names |-> {"meta.yaml"}]
    ELSE IF yaml.kind = "unparsable"
    THEN [kind |-> "YAMLError"]
    ELSE IF yaml.kind # "dict"
    THEN TypeError("argument after ** must be a mapping", {})
    ELSE IF DOMAIN yaml.entries \cap ExternalFields # {}
    THEN TypeError("got multiple values for keyword argument",
                   DOMAIN yaml.entries \cap ExternalFields)
    ELSE IF DOMAIN yaml.entries \ RequiredFields # {}
    THEN TypeError("got an unexpected keyword argument",
                   DOMAIN yaml.entries \ RequiredFields)
    ELSE IF RequiredFields \ DOMAIN yaml.entries # {}
    THEN TypeError("missing required positional arguments",
                   RequiredFields \ DOMAIN yaml.entries)
    ELSE [kind |-> "ok", fields |-> yaml.entries]

\* one call of meta.validate on the submission
MetaValidate ==
    /\ accepted = NoOutcome
    /\ accepted' = meta_validate(meta_yaml)
    /\ UNCHANGED <<meta_yaml, metadata>>
    /\ UNCHANGED scoring_vars
    /\ UNCHANGED command_vars
    /\ UNCHANGED features_vars
    /\ UNCHANGED upload_vars

\* one call of Metadata.create_from on the submission
MetadataCreateFrom ==
    /\ metadata = NoOutcome
    /\ metadata' = metadata_create_from(meta_yaml)
    /\ UNCHANGED <<meta_yaml, accepted>>
    /\ UNCHANGED scoring_vars
    /\ UNCHANGED command_vars
    /\ UNCHANGED features_vars
    /\ UNCHANGED upload_vars

\* ----------------------------------------------------- the meta.yaml tried
TopLevelKeys ==
    {"author", "affiliation", "description", "open_source", "train_set",
     "budget", "gpu_budget", "visually_grounded", "parameters",
     "submission_id"}

\* the value a well-formed file gives to a key
PlainValue(key) ==
    CASE key \in {"open_source", "visually_grounded"} -> Value("bool", "true")
      [] key \in {"budget", "gpu_budget"} -> Value("float", "1.5")
      [] key = "parameters" -> Value("dict", "parameters")
      [] OTHER -> Value("str", key)

PlainEntries(keys) == [k \in keys |-> PlainValue(k)]

\* values of another type or content for one key
OtherValues ==
    {<<"author", Value("str", "")>>, <<"author", Value("int", "1")>>,
     <<"open_source", Value("str", "yes")>>,
     <<"budget", Value("int", "60")>>, <<"gpu_budget", Value("int", "60")>>,
     <<"parameters", Value("dict", "parameters_other")>>,
     <<"parameters", Value("dict", "parameters_metric")>>,
     <<"parameters", Value("dict", "parameters_shift")>>,
     <<"parameters", Value("str", "none")>>}

ValidatedKeys == {TopLevelEntries[i][1] : i \in 1..Len(TopLevelEntries)}

\* ------------------------------------------- zr_upload_lib: multipart upload
\* The manifest is the sequence of the statuses of the parts, in the order of
\* the dictionary: "todo", "waiting", "retry_<n>", "failed" or "done".

\* model.py line 10
NB_RETRY_ATTEMPTS == 2

\* parts of the archives tried, calls of multipart_upload on one archive
MaxParts == 3
MaxRuns == 2

\* f"retry_{nb}"
retry(nb) ==
    CASE nb = 1 -> "retry_1" [] nb = 2 -> "retry_2" [] nb = 3 -> "retry_3"
      [] OTHER -> "retry_4"

\* 'retry' in v
is_retry(v) == v \in {"retry_1", "retry_2", "retry_3", "retry_4"}

\* int(k.split('_')[1])
retry_number(k) ==
    CASE k = "retry_1" -> 1 [] k = "retry_2" -> 2 [] k = "retry_3" -> 3
      [] OTHER -> 4

\* the first part with a status for which Test holds, 0 without one
first_with(m, Test(_)) ==
    IF \E k \in 1..Len(m) : Test(m[k])
    THEN CHOOSE k \in 1..Len(m) :
             Test(m[k]) /\ \A j \in 1..(k - 1) : ~Test(m[j])
    ELSE 0

\* a mutation of __next__: the parts to be tried again are not returned
next_todo_or_waiting(m) ==
    LET Todo(v) == v = "todo"
        Waiting(v) == v = "waiting"
    IN  IF first_with(m, Todo) # 0 THEN first_with(m, Todo)
        ELSE first_with(m, Waiting)

\* model.py lines 106-116: __next__, 0 for StopIteration
next_item(m) ==
    LET Todo(v) == v = "todo"
        Waiting(v) == v = "waiting"
    IN  IF first_with(m, Todo) # 0 THEN first_with(m, Todo)
        ELSE IF first_with(m, Waiting) # 0 THEN first_with(m, Waiting)
        ELSE first_with(m, is_retry)

\* a mutation of set_waiting: the status is set whatever it was
set_waiting_always(m, key) == [m EXCEPT ![key] = "waiting"]

\* model.py lines 121-124: set_waiting, the manifest it saves
set_waiting(m, key) ==
    IF m[key] = "todo" THEN [m EXCEPT ![key] = "waiting"] ELSE m

\* model.py lines 126-128: set_done
set_done(m, key) == [m EXCEPT ![key] = "done"]

\* a mutation of set_failed: one more attempt before 'failed'
set_failed_later(m, key) ==
    IF m[key] \in {"waiting", "todo"} THEN [m EXCEPT ![key] = "retry_1"]
    ELSE IF is_retry(m[key])
    THEN [m EXCEPT ![key] =
             IF retry_number(m[key]) + 1 > NB_RETRY_ATTEMPTS + 1 THEN "failed"
             ELSE retry(retry_number(m[key]) + 1)]
    ELSE m

\* model.py lines 130-142: set_failed with retries = NB_RETRY_ATTEMPTS
set_failed(m, key) ==
    IF m[key] \in {"waiting", "todo"} THEN [m EXCEPT ![key] = "retry_1"]
    ELSE IF is_retry(m[key])
    THEN [m EXCEPT ![key] =
             IF retry_number(m[key]) + 1 > NB_RETRY_ATTEMPTS THEN "failed"
             ELSE retry(retry_number(m[key]) + 1)]
    ELSE m

\* model.py lines 144-149: save
save(m, id) == Some([manifest |-> m, submission_id |-> id])

\* model.py lines 151-155: is_complete
is_complete(m) == \A k \in 1..Len(m) : m[k] = "done"

\* the parts with one of the statuses, in the order of the manifest
parts_with(m, statuses) ==
    LET keys == [k \in 1..Len(m) |-> k]
        Test(k) == m[k] \in statuses
    IN  SelectSeq(keys, Test)

\* a mutation of get_failed: the parts not sent yet
get_pending(m) == parts_with(m, {"todo", "waiting"})

\* model.py lines 157-158: get_failed
get_failed(m) == parts_with(m, {"failed"})

\* requests made for a part, counted up to one more than the retries allow
count_sent(n) ==
    IF n > NB_RETRY_ATTEMPTS + 1 THEN n ELSE n + 1

\* the run is over
Ended == {"returned", "exit", "raised"}

\* cli/upload.py line 62 and upload.py lines 111-120: the command is run
\* again; ask_resume removes the checkpoint file on the answer "No"
AskResume ==
    /\ upload \in Ended
    /\ runs < MaxRuns
    /\ upload' = "idle"
    /\ \/ UNCHANGED save_file
       \/ save_file # NaN /\ save_file' = NaN
    /\ UNCHANGED <<archive, tmp_location, man, submission_id, current, returns,
                   sent, sends, succeeded, runs>>
    /\ UNCHANGED scoring_vars
    /\ UNCHANGED <<command_vars, features_vars, meta_vars>>

\* upload.py lines 20-45: the manifest is loaded from the checkpoint file or
\* made of the parts of the archive, and saved; without submission_id the
\* request of a submission session is made
Start ==
    /\ upload = "idle"
    /\ runs' = runs + 1
    /\ IF save_file # NaN
       THEN /\ man' = Val(save_file).manifest
            /\ submission_id' = Val(save_file).submission_id
            /\ UNCHANGED <<tmp_location, succeeded>>
       ELSE /\ man' = [k \in 1..archive |-> "todo"]
            /\ submission_id' = FALSE
            /\ tmp_location' = TRUE
            /\ succeeded' = {}
    /\ save_file' = save(man', submission_id')
    /\ upload' = IF submission_id' THEN "loop" ELSE "create"
    /\ sent' = [k \in 1..archive |-> 0]
    /\ current' = 0
    /\ returns' = NaN
    /\ UNCHANGED <<archive, sends>>
    /\ UNCHANGED scoring_vars
    /\ UNCHANGED <<command_vars, features_vars, meta_vars>>

\* upload.py lines 44-54: the answer to create_multipart_submission
Created ==
    /\ upload = "create"
    /\ \E status_code \in {200, 500} :
        IF status_code # 200
        THEN /\ upload' = "exit"
             /\ UNCHANGED <<submission_id, save_file>>
        ELSE /\ submission_id' = TRUE
             /\ save_file' = save(man, TRUE)
             /\ upload' = "loop"
    /\ UNCHANGED <<archive, tmp_location, man, current, returns, sent, sends,
                   succeeded, runs>>
    /\ UNCHANGED scoring_vars
    /\ UNCHANGED <<command_vars, features_vars, meta_vars>>

\* upload.py lines 59-69: the next part of the manifest is set waiting and
\* the request of its upload is made
Upload ==
    /\ upload = "loop"
    /\ next_item(man) # 0
    /\ current' = next_item(man)
    /\ man' = set_waiting(man, current')
    /\ save_file' = IF man[current'] = "todo" THEN save(man', submission_id)
                    ELSE save_file
    /\ sent' = [sent EXCEPT ![current'] = count_sent(@)]
    /\ sends' = sends \cup {<<current', Val(save_file).manifest[current']>>}
    /\ upload' = "sending"
    /\ UNCHANGED <<archive, tmp_location, submission_id, returns, succeeded,
                   runs>>
    /\ UNCHANGED scoring_vars
    /\ UNCHANGED <<command_vars, features_vars, meta_vars>>

\* upload.py lines 71-77: the answer of the server to the upload of the part
Response ==
    /\ upload = "sending"
    /\ \E status_code \in {200, 500} :
        IF status_code = 200
        THEN /\ man' = set_done(man, current)
             /\ succeeded' = succeeded \cup {current}
        ELSE /\ man' = set_failed(man, current)
             /\ UNCHANGED succeeded
    /\ save_file' = save(man', submission_id)
    /\ upload' = "loop"
    /\ UNCHANGED <<archive, tmp_location, submission_id, current, returns, sent,
                   sends, runs>>
    /\ UNCHANGED scoring_vars
    /\ UNCHANGED <<command_vars, features_vars, meta_vars>>

\* api_fn.py lines 66-76: requests.put raises (no connection): the exception
\* leaves multipart_upload
Raise ==
    /\ upload = "sending"
    /\ upload' = "raised"
    /\ UNCHANGED <<archive, save_file, tmp_location, man, submission_id, current,
                   returns, sent, sends, succeeded, runs>>
    /\ UNCHANGED scoring_vars
    /\ UNCHANGED <<command_vars, features_vars, meta_vars>>

\* upload.py lines 79-84: StopIteration ends the loop and the function returns
Return ==
    /\ upload = "loop"
    /\ next_item(man) = 0
    /\ IF is_complete(man)
       THEN /\ save_file' = NaN
            /\ tmp_location' = FALSE
            /\ returns' = Some(<<>>)
       ELSE /\ returns' = Some(get_failed(man))
            /\ UNCHANGED <<save_file, tmp_location>>
    /\ upload' = "returned"
    /\ UNCHANGED <<archive, man, submission_id, current, sent, sends, succeeded,
                   runs>>
    /\ UNCHANGED scoring_vars
    /\ UNCHANGED <<command_vars, features_vars, meta_vars>>

\* ----------------------------------------------------------- initial states

IdleValidate ==
    /\ kind = "dev"
    /\ submission_is_file = FALSE
    /\ dataset_is_dir = FALSE
    /\ required_files = {}
    /\ submission = <<>>
    /\ validated = NoOutcome

IdleEvaluate ==
    /\ gold_file = NoFile
    /\ submission_file = NoFile
    /\ pairs = <<>>
    /\ data = <<>>
    /\ scored = <<>>
    /\ by_pair = <<>>
    /\ returned = NoOutcome

IdleLeaderboard ==
    /\ score_location = <<>>
    /\ external_meta = NaN
    /\ semantic_size = [dev |-> <<>>, test |-> <<>>]
    /\ clock = 0
    /\ subs = NoOutcome
    /\ entries = <<>>

IdleSemantic ==
    /\ arguments = [gold_file |-> NoFile, pairs_file |-> NoFile,
                    submission_dir |-> [is_dir |-> FALSE, files |-> <<>>],
                    metric |-> "cityblock", pooling |-> "mean"]
    /\ reads = <<>>
    /\ pool = <<>>
    /\ cdists = <<>>
    /\ evaluated = NoOutcome

IdleCommand ==
    /\ options = [kinds |-> <<"dev">>, skipped |-> {}]
    /\ fault = NaN
    /\ output_directory = {}
    /\ running = "lexical"

IdleFeatures ==
    /\ checking = [kind |-> "dev", subset |-> "librispeech",
                   submission_is_dir |-> FALSE, dataset_is_dir |-> FALSE,
                   required |-> <<>>, submitted |-> <<>>, files |-> <<>>]
    /\ checked = <<>>
    /\ printed = <<>>
    /\ validation = NoOutcome

IdleMeta ==
    /\ meta_yaml = [kind |-> "missing"]
    /\ accepted = NoOutcome
    /\ metadata = NoOutcome

IdleUpload ==
    /\ archive = 0
    /\ save_file = NaN
    /\ tmp_location = FALSE
    /\ man = <<>>
    /\ submission_id = FALSE
    /\ upload = "idle"
    /\ current = 0
    /\ returns = NaN
    /\ sent = <<>>
    /\ sends = {}
    /\ succeeded = {}
    /\ runs = 0

IdleOther == IdleCommand /\ IdleFeatures /\ IdleMeta /\ IdleUpload

IdleScoring ==
    /\ IdleValidate
    /\ IdleEvaluate
    /\ IdleLeaderboard
    /\ IdleSemantic

InitValidate ==
    /\ kind \in Kinds
    /\ submission_is_file \in BOOLEAN
    /\ dataset_is_dir \in BOOLEAN
    /\ required_files \in SUBSET Filenames
    /\ submission \in UNION {[1..n -> LinePool] : n \in 0..MaxLines}
    /\ validated = NoOutcome
    /\ IdleEvaluate
    /\ IdleLeaderboard
    /\ IdleSemantic
    /\ IdleOther

InitPairing ==
    /\ \/ \E g \in PairingGolds :
            /\ gold_file = File(g)
            /\ \E s \in SubmissionsFor(g) : submission_file = File(s)
       \/ /\ gold_file \in {NoFile, File(<<>>)}
          /\ submission_file = NoFile
       \/ /\ gold_file = NoFile
          /\ submission_file = File(<<>>)
    /\ pairs = <<>>
    /\ data = <<>>
    /\ scored = <<>>
    /\ by_pair = <<>>
    /\ returned = NoOutcome
    /\ IdleValidate
    /\ IdleLeaderboard
    /\ IdleSemantic
    /\ IdleOther

InitBanding ==
    /\ \E g \in BandingGolds :
            /\ gold_file = File(g)
            /\ \E s \in BandingSubmissionsFor(g) : submission_file = File(s)
    /\ pairs = <<>>
    /\ data = <<>>
    /\ scored = <<>>
    /\ by_pair = <<>>
    /\ returned = NoOutcome
    /\ IdleValidate
    /\ IdleLeaderboard
    /\ IdleSemantic
    /\ IdleOther

\* score folders that lack some files, or hold other tables than the plain
\* ones in the two files of one view
InitLeaderboard ==
    /\ \/ /\ \E missing \in SUBSET ScoreFiles :
                /\ Cardinality(missing) <= MaxMissing
                /\ score_location = Without(missing)
          /\ semantic_size = PlainSize
          /\ external_meta \in ExternalMetas
       \/ /\ \E t \in FrequencyTables :
                \/ score_location = With(lexical_dev_frequency, t,
                                         lexical_test_frequency, PlainFrequency)
                \/ score_location = With(lexical_test_frequency, t,
                                         lexical_dev_frequency, PlainFrequency)
          /\ semantic_size = PlainSize
          /\ external_meta = DatedMeta
       \/ /\ \E t, u \in LengthTables :
                score_location = With(lexical_dev_length, t,
                                      lexical_test_length, u)
          /\ semantic_size = PlainSize
          /\ external_meta = DatedMeta
       \/ /\ \E t, u \in TypeTables :
                score_location = With(syntactic_dev_types, t,
                                      syntactic_test_types, u)
          /\ semantic_size = PlainSize
          /\ external_meta = DatedMeta
       \/ \E t \in CorrelationTables : \E z \in SizeTables :
             /\ score_location =
                    With(semantic_dev_correlation, t,
                         semantic_test_correlation, PlainFolder[
                             semantic_test_correlation])
             /\ semantic_size = [dev |-> z, test |-> PlainSize.test]
             /\ external_meta = DatedMeta
    /\ clock = 0
    /\ subs = NoOutcome
    /\ entries = <<>>
    /\ IdleValidate
    /\ IdleEvaluate
    /\ IdleSemantic
    /\ IdleOther

Arguments(focus, n_1, n_2, variant, seed, method, pair_rows) ==
    LET gold == GoldTable(focus, n_1, n_2, variant)
    IN  [gold_file |-> File(gold), pairs_file |-> File(pair_rows),
         submission_dir |-> Submission(gold, variant, seed),
         metric |-> method[2], pooling |-> method[1]]

PlainArguments ==
    Arguments("librispeech", 2, 2, "plain", 0, <<"mean", "cityblock">>,
        <<Pair("librispeech", 1, "a", "b", Some(3), NaN)>>)

\* semantic.evaluate is about to be called: on a gold table, a pair_rows table and
\* a submission of the families above, or on a path that is not there
InitSemantic ==
    /\ \/ \E focus \in Types, n_1 \in TokenCounts, n_2 \in {0, 1, 2},
             variant \in GoldVariants, seed \in Seeds, method \in Methods :
            \E pair_rows \in PairsTables(focus) :
                arguments =
                    Arguments(focus, n_1, n_2, variant, seed, method, pair_rows)
       \/ \E method \in Methods :
            \/ arguments = [PlainArguments EXCEPT !.gold_file = NoFile,
                   !.pooling = method[1], !.metric = method[2]]
            \/ arguments = [PlainArguments EXCEPT !.pairs_file = NoFile,
                   !.pooling = method[1], !.metric = method[2]]
            \/ arguments = [PlainArguments EXCEPT
                   !.submission_dir = [is_dir |-> FALSE, files |-> <<>>],
                   !.pooling = method[1], !.metric = method[2]]
    /\ reads = <<>>
    /\ pool = <<>>
    /\ cdists = <<>>
    /\ evaluated = NoOutcome
    /\ IdleValidate
    /\ IdleEvaluate
    /\ IdleLeaderboard
    /\ IdleOther

\* the command has checked its arguments and made the output directory
InitCommand ==
    /\ \E kinds \in KindsLists, skipped \in SUBSET Tasks :
        /\ options = [kinds |-> kinds, skipped |-> skipped]
        /\ fault \in Faults(kinds)
    /\ output_directory = {}
    /\ running = "lexical"
    /\ IdleScoring
    /\ IdleFeatures
    /\ IdleMeta
    /\ IdleUpload

\* one of the two validate is about to be called
InitFeatures ==
    /\ \/ \E n \in FileCounts, where \in {"first", "last", "spread"} :
            \E k \in 0..n, odd \in {0, 1} :
                checking = Checking(n, k, where, odd)
       \/ checking \in Refused
    /\ checked = <<>>
    /\ printed = <<>>
    /\ validation = NoOutcome
    /\ IdleScoring
    /\ IdleCommand
    /\ IdleMeta
    /\ IdleUpload

\* a submission whose meta.yaml is about to be validated and loaded
InitMeta ==
    /\ \/ \E keys \in SUBSET TopLevelKeys :
            meta_yaml = [kind |-> "dict", entries |-> PlainEntries(keys)]
       \/ \E keys \in {ValidatedKeys, RequiredFields}, o \in OtherValues :
            /\ o[1] \in keys
            /\ meta_yaml = [kind |-> "dict",
                            entries |-> [PlainEntries(keys) EXCEPT ![o[1]] = o[2]]]
       \/ meta_yaml \in {[kind |-> "missing"], [kind |-> "unparsable"],
                         [kind |-> "empty"], [kind |-> "list"]}
    /\ accepted = NoOutcome
    /\ metadata = NoOutcome
    /\ IdleScoring
    /\ IdleCommand
    /\ IdleFeatures
    /\ IdleUpload

\* the upload command is about to be run on an archive for the first time
InitUpload ==
    /\ archive \in 1..MaxParts
    /\ save_file = NaN
    /\ tmp_location = FALSE
    /\ man = <<>>
    /\ submission_id = FALSE
    /\ upload = "idle"
    /\ current = 0
    /\ returns = NaN
    /\ sent = [k \in 1..archive |-> 0]
    /\ sends = {}
    /\ succeeded = {}
    /\ runs = 0
    /\ IdleScoring
    /\ IdleCommand
    /\ IdleFeatures
    /\ IdleMeta

\* --------------------------------------------------------- specifications

NextValidate == LexicalValidate \/ SyntacticValidate

NextEvaluate == LexicalEvaluate \/ SyntacticEvaluate

SpecValidate == InitValidate /\ [][NextValidate]_vars

SpecPairing == InitPairing /\ [][NextEvaluate]_vars

SpecBanding == InitBanding /\ [][NextEvaluate]_vars

NextLeaderboard == Create \/ Leaderboard

SpecLeaderboard == InitLeaderboard /\ [][NextLeaderboard]_vars

NextSemantic == SemanticEvaluate

SpecSemantic == InitSemantic /\ [][NextSemantic]_vars

NextCommand == EvalLexical \/ EvalSemantic \/ EvalSyntactic \/ EvalPhonetic

SpecCommand == InitCommand /\ [][NextCommand]_vars

NextFeatures == SemanticValidate \/ PhoneticValidate

SpecFeatures == InitFeatures /\ [][NextFeatures]_vars

NextMeta == MetaValidate \/ MetadataCreateFrom

SpecMeta == InitMeta /\ [][NextMeta]_vars

NextUpload == AskResume \/ Start \/ Created \/ Upload \/ Response \/ Raise \/ Return

SpecUpload == InitUpload /\ [][NextUpload]_vars

\* a run goes on while it can, and a request made gets its answer or raises;
\* nothing makes the user run the command again
RunStep == Start \/ Created \/ Upload \/ Response \/ Raise \/ Return

SpecUploadFair == SpecUpload /\ WF_vars(RunStep)

\* ------------------------------------------------------------------ claims

Gold == gold_file.frame

Done == returned.kind = "ok"

Lexical == returned.task = "lexical"

\* the raw scores of line i of the loaded table
PositiveScore(i) ==
    IF Lexical THEN data[i].score_word ELSE data[i].score_sentence

NegativeScore(i) ==
    IF Lexical THEN data[i].score_non_word ELSE data[i].score_non_sentence

\* C1: on every line of the loaded table that holds both scores, the
\* comparison score is 1 when the positive score is strictly greater than
\* the negative one, 1/2 when they are equal and 0 when it is smaller.
C1_ComparisonScore ==
    Done =>
        \A i \in 1..Len(data) :
            LET a == PositiveScore(i)
                b == NegativeScore(i)
                c == scored[i].score
            IN  (a # NaN /\ b # NaN) =>
                    /\ Val(a) > Val(b) => c = [num |-> 1, den |-> 1]
                    /\ Val(a) = Val(b) => c = [num |-> 1, den |-> 2]
                    /\ Val(a) < Val(b) => c = [num |-> 0, den |-> 1]

\* C1 witness: a tie of two negative scores got 1/2 and a negative score
\* under a zero one got 0
C1_Witness ==
    /\ Done
    /\ \E i, j \in 1..Len(data) :
           /\ PositiveScore(i) = Some(-1) /\ NegativeScore(i) = Some(-1)
           /\ scored[i].score = [num |-> 1, den |-> 2]
           /\ PositiveScore(j) = Some(-1) /\ NegativeScore(j) = Some(0)
           /\ scored[j].score = [num |-> 0, den |-> 1]

\* the pair ids of the loaded table
DataIds == {Val(data[i].id) : i \in {j \in 1..Len(data) : data[j].id # NaN}}

\* the comparison scores of the lines of pair id, in line order
ScoresOf(id) == Column(SelectSeq(scored, LAMBDA r : r.id = Some(id)), "score")

\* the text of the positive member in row k of the by-pair table
PairText(k) == IF Lexical THEN by_pair[k].word ELSE by_pair[k].sentence

\* C2: the by-pair table has one row per pair id of the loaded table, and the
\* score of that row, times the number of lines of the id, is the sum of
\* their comparison scores; it lies between 0 and 1.
C2_OneRowPerIdMeanOverVoices ==
    Done =>
        /\ Len(by_pair) = Cardinality(DataIds)
        /\ \A id \in DataIds :
               \E k \in 1..Len(by_pair) :
                   /\ PairText(k) = Some(WordOf(id, 1))
                   /\ RScale(by_pair[k].score, Len(ScoresOf(id)))
                          = RSum(ScoresOf(id))
                   /\ 0 <= by_pair[k].score.num
                   /\ by_pair[k].score.num <= by_pair[k].score.den

\* C2 witness: two pairs, one of them with two voices whose comparison
\* scores differ by a half (a mean in quarters)
C2_Witness ==
    /\ Done
    /\ Cardinality(DataIds) = 2
    /\ \E k \in 1..Len(by_pair) : by_pair[k].score.den = 4

\* every (id, voice) of the gold table has one correct and one incorrect row
WellPaired ==
    \A i \in 1..Len(Gold) : \A c \in {0, 1} :
        Cardinality({j \in 1..Len(Gold) :
                        /\ Gold[j].id = Gold[i].id
                        /\ Gold[j].voice = Gold[i].voice
                        /\ Gold[j].correct = c}) = 1

\* C3: when every (id, voice) has one correct and one incorrect gold row,
\* every line of load_data is made of a correct and an incorrect row of the
\* same id and the same voice.
C3_SameIdSameVoice ==
    (Done /\ WellPaired) =>
        \A i \in 1..Len(pairs) :
            /\ pairs[i].w_index # NaN
            /\ pairs[i].nw_index # NaN
            /\ Gold[Val(pairs[i].w_index)].id
                   = Gold[Val(pairs[i].nw_index)].id
            /\ Gold[Val(pairs[i].w_index)].voice
                   = Gold[Val(pairs[i].nw_index)].voice

\* both files are there and their filenames differ
KeysDiffer ==
    /\ gold_file.is_file
    /\ submission_file.is_file
    /\ gold_index(Gold) # DOMAIN submission_file.frame

\* C4 as claimed: on a difference of the key sets load_data raises a
\* MismatchError that carries the missing and the extra keys.
C4_LoaderMismatchError ==
    (KeysDiffer /\ returned # NoOutcome) =>
        /\ returned.kind = "MismatchError"
        /\ returned.expected \ Range(returned.observed)
               = gold_index(Gold) \ DOMAIN submission_file.frame
        /\ Range(returned.observed) \ returned.expected
               = (DOMAIN submission_file.frame) \ gold_index(Gold)

\* C4 amended: on a difference of the key sets load_data raises a ValueError
\* that holds its fixed message and nothing else, and loads nothing.
C4_LoaderValueError ==
    (KeysDiffer /\ returned # NoOutcome) =>
        /\ returned = ValueError("mismatch between gold and submission !")
        /\ data = <<>>

\* C4 witness: the submission lacks the second of two gold keys, no other
\* difference, and evaluate raised
C4_Witness ==
    /\ Len(Gold) = 2
    /\ submission_file.is_file
    /\ DOMAIN submission_file.frame = {1}
    /\ returned.kind = "ValueError"

\* validate gets as far as reading the lines
Reads == kind \in {"dev", "test"} /\ submission_is_file /\ dataset_is_dir

Spaces(t) == {i \in 1..Len(t) : t[i] = " "}

\* the line is, within its surrounding whitespace, a key, one space and a
\* float
KeyFloat(line) ==
    LET t == strip(line)
    IN  /\ Cardinality(Spaces(t)) = 1
        /\ \E k \in Spaces(t) :
               /\ k > 1
               /\ is_float(SubSeq(t, k + 1, Len(t)))

AfterSpace(t) == SubSeq(t, (CHOOSE k \in Spaces(t) : TRUE) + 1, Len(t))

Malformed == {i \in 1..Len(submission) : ~KeyFloat(submission[i])}

\* C5: when a line of the submission is not "<key> <float>", validate raises
\* a FormatError that holds the 1-based number of the first such line and
\* its content: the line, or its score when the line has two fields.
C5_FirstMalformedLine ==
    (Reads /\ validated # NoOutcome /\ Malformed # {}) =>
        LET i == CHOOSE m \in Malformed : \A n \in Malformed : m <= n
            t == strip(submission[i])
            o == validated.outcome
        IN  /\ o.kind = "FormatError"
            /\ o.line = i
            /\ o.content =
                   IF Cardinality(Spaces(t)) = 1 THEN AfterSpace(t) ELSE t

\* C5 witness: a good line, then two malformed ones; the second line of the
\* file is the one reported
C5_Witness ==
    /\ Reads
    /\ Len(submission) = 3
    /\ Malformed = {2, 3}
    /\ validated # NoOutcome
    /\ validated.outcome.kind = "FormatError"
    /\ validated.outcome.line = 2

\* C6 as claimed: when the filenames of the two files are the same, the
\* loaded table has as many rows as the gold table.
C6_RowsEqualGold == Done => Len(data) = Len(Gold)

GoldSide(c) == {i \in 1..Len(Gold) : Gold[i].correct = c}

\* C6 amended: the loaded table has as many rows as the larger of the two
\* sides of the gold table (its correct rows, its incorrect rows).
C6_RowsLargerSide ==
    Done => Len(data) = Max(Cardinality(GoldSide(1)), Cardinality(GoldSide(0)))

\* C6 witness: four gold rows, two on each side, loaded as two lines
C6_Witness ==
    /\ Done
    /\ Len(Gold) = 4
    /\ Cardinality(GoldSide(1)) = 2
    /\ Len(data) = 2

VoicesOf(id, c) ==
    {Gold[i].voice : i \in {j \in GoldSide(c) : Gold[j].id = id}}

\* some pair id has not the same voices on its two sides
Inconsistent ==
    \E i \in 1..Len(Gold) : VoicesOf(Gold[i].id, 1) # VoicesOf(Gold[i].id, 0)

\* C7: when a pair id has not the same voices on its two sides, evaluate
\* raises an error.
C7_InconsistencyReported ==
    (returned # NoOutcome /\ ~KeysDiffer /\ gold_file.is_file
        /\ submission_file.is_file /\ Inconsistent)
        => Raised(returned)

\* the keys of the lines of a submission whose lines are all well formed
KeyOf(line) ==
    LET t == strip(line)
    IN  SubSeq(t, 1, (CHOOSE k \in Spaces(t) : TRUE) - 1)

Keys == [i \in 1..Len(submission) |-> KeyOf(submission[i])]

Duplicated ==
    {Keys[i] : i \in {j \in 1..Len(submission) :
                         \E m \in 1..Len(submission) :
                             m # j /\ Keys[m] = Keys[j]}}

\* C8: a submission of well-formed lines in which a key comes more than once
\* makes validate raise the MismatchError 'duplicates found', which lists
\* each duplicated key once, whether or not the keys are the required ones.
C8_DuplicatesFirst ==
    (Reads /\ validated # NoOutcome /\ Malformed = {} /\ Duplicated # {}) =>
        LET o == validated.outcome
        IN  /\ o.kind = "MismatchError"
            /\ o.message = "duplicates found"
            /\ Range(o.observed) = Duplicated
            /\ Len(o.observed) = Cardinality(Duplicated)

\* C8 witness: the keys are the required ones, one of them comes twice, and
\* the error raised is the one of the duplicates
C8_Witness ==
    /\ Reads
    /\ validated # NoOutcome
    /\ Malformed = {}
    /\ Duplicated # {}
    /\ Range(Keys) = required_files
    /\ validated.outcome.kind = "MismatchError"
    /\ validated.outcome.message = "duplicates found"

RECURSIVE SumN(_)
SumN(frame) == IF frame = <<>> THEN 0 ELSE Head(frame).n + SumN(Tail(frame))

\* C9: in each summary the counts n add up to the number of rows of the
\* by-pair table.
C9_BandingPartition ==
    Done =>
        IF Lexical
        THEN /\ SumN(returned.by_frequency) = Len(by_pair)
             /\ SumN(returned.by_length) = Len(by_pair)
        ELSE SumN(returned.by_type) = Len(by_pair)

\* the number of pairs whose frequency f is known and has lo <= f < hi
Between(lo, hi) ==
    Cardinality({i \in 1..Len(by_pair) :
                    /\ by_pair[i].frequency # NaN
                    /\ lo <= Val(by_pair[i].frequency)
                    /\ Val(by_pair[i].frequency) < hi})

AtLeast(lo) ==
    Cardinality({i \in 1..Len(by_pair) :
                    /\ by_pair[i].frequency # NaN
                    /\ lo <= Val(by_pair[i].frequency)})

Closed(lo, hi) ==
    Cardinality({i \in 1..Len(by_pair) :
                    /\ by_pair[i].frequency # NaN
                    /\ lo <= Val(by_pair[i].frequency)
                    /\ Val(by_pair[i].frequency) <= hi})

\* the count n of the row of the frequency summary that has this label
CountUnder(label) ==
    LET f == returned.by_frequency
    IN  f[CHOOSE k \in 1..Len(f) : f[k].frequency = label].n

\* C11: the frequency summary counts under 'oov' the pairs of frequency 0,
\* under '1-5' those of frequency 1 to 5, under '6-20' those of 6 to 20,
\* under '21-100' those of 21 to 100 and under '>100' those above 100, the
\* upper edge of each band included.
C11_BandsAsLabelled ==
    (Done /\ Lexical) =>
        /\ CountUnder("oov") = Closed(0, 0)
        /\ CountUnder("1-5") = Closed(1, 5)
        /\ CountUnder("6-20") = Closed(6, 20)
        /\ CountUnder("21-100") = Closed(21, 100)
        /\ CountUnder(">100") = AtLeast(101)

\* the rows of a summary whose key columns have the values of key
RowsWith(summary, columns, key) ==
    {k \in 1..Len(summary) : \A c \in columns : summary[k][c] = key[c]}

\* the pairs of the by-pair table whose key columns hold the values of key
PairsWith(columns, key) ==
    {i \in 1..Len(by_pair) : \A c \in columns : by_pair[i][c] = Some(key[c])}

\* for every pair whose key columns are all known the summary has one row
\* with the values of the pair, and when the pair is alone with these values
\* this row has n = 1, the score of the pair and no standard deviation
KeptIn(summary, columns) ==
    \A i \in 1..Len(by_pair) :
        (\A c \in columns : by_pair[i][c] # NaN) =>
            LET key  == [c \in columns |-> Val(by_pair[i][c])]
                rows == RowsWith(summary, columns, key)
            IN  /\ Cardinality(rows) = 1
                /\ PairsWith(columns, key) = {i} =>
                       \A k \in rows :
                           /\ summary[k].n = 1
                           /\ summary[k].score = Some(by_pair[i].score)
                           /\ summary[k].std = NaN

\* the by-pair table with the band of each frequency in place of it
Banded ==
    [i \in 1..Len(by_pair) |->
        [frequency |-> cut(by_pair[i].frequency), score |-> by_pair[i].score]]

\* C12: each summary has one row for every band value present in the by-pair
\* table, and the row of a band that holds a single pair has n = 1, the score
\* of this pair as mean and an undefined standard deviation.
C12_SinglePairBandKept ==
    Done =>
        IF Lexical
        THEN /\ KeptIn(returned.by_length, {"length"})
             /\ \A i \in 1..Len(Banded) :
                    Banded[i].frequency # NaN =>
                        LET rows == {k \in 1..Len(returned.by_frequency) :
                                        Some(returned.by_frequency[k].frequency)
                                            = Banded[i].frequency}
                            same == {j \in 1..Len(Banded) :
                                        Banded[j].frequency
                                            = Banded[i].frequency}
                        IN  /\ Cardinality(rows) = 1
                            /\ same = {i} =>
                                   \A k \in rows :
                                       LET r == returned.by_frequency[k]
                                       IN  /\ r.n = 1
                                           /\ r.score = Some(Banded[i].score)
                                           /\ r.std = NaN
        ELSE KeptIn(returned.by_type, {"type", "subtype"})

\* C12 witness: one tied pair of frequency 0, alone in the band 'oov', which
\* has n = 1, mean 1/2 and no standard deviation
C12_Witness ==
    /\ Done
    /\ Lexical
    /\ \E i \in 1..Len(by_pair) :
           /\ by_pair[i].frequency = Some(0)
           /\ by_pair[i].score = [num |-> 1, den |-> 2]
    /\ returned.by_frequency[1] =
           [frequency |-> "oov", n |-> 1,
            score |-> Some([num |-> 1, den |-> 2]), std |-> NaN]

Absent == ScoreFiles \ DOMAIN score_location

\* C13: when one of the expected score files is absent from the score folder,
\* building the submission fails in is_valid with a FileNotFoundError that
\* names this file.
C13_MissingFileNamed ==
    \A f \in ScoreFiles :
        (subs # NoOutcome /\ Absent = {f}) =>
            subs = [kind |-> "FileNotFoundError", raised_by |-> "is_valid",
                    names |-> f]

\* every row of the dev and of the test table is in a row of the merged
\* table under its key, and a merged row whose key is in one table only has
\* nothing on the side of the other
Covers(merged, dev, test, col) ==
    /\ \A i \in 1..Len(dev) :
           \E m \in 1..Len(merged) :
               merged[m].key = dev[i][col] /\ merged[m].dev = Some(dev[i])
    /\ \A j \in 1..Len(test) :
           \E m \in 1..Len(merged) :
               merged[m].key = test[j][col] /\ merged[m].test = Some(test[j])
    /\ \A m \in 1..Len(merged) :
           /\ (\A i \in 1..Len(dev) : dev[i][col] # merged[m].key)
                  => merged[m].dev = NaN
           /\ (\A j \in 1..Len(test) : test[j][col] # merged[m].key)
                  => merged[m].test = NaN

C15_Idempotent ==
    \A m, n \in 1..Len(entries) : entries[m] = entries[n]

\* a record with the date t in place of its own
Dated(entry, t) ==
    IF entry.kind = "ok"
    THEN [entry EXCEPT !.more.description.submitted_at = t]
    ELSE entry

\* the metadata hold a submission date that datetime.fromisoformat reads
HasDate ==
    /\ external_meta # NaN
    /\ Val(external_meta).submitted_at # NaN
    /\ Val(Val(external_meta).submitted_at).iso

\* C15 amended: the records built from the same submission, scores and
\* metadata are identical when the metadata hold a submission date; without
\* one they are identical but for 'submitted_at', the time of each build.
C15_IdempotentButForDate ==
    \A m, n \in 1..Len(entries) :
        /\ Dated(entries[m], 0) = Dated(entries[n], 0)
        /\ HasDate => entries[m] = entries[n]

\* C15 witness: two records built without submission date, at two times,
\* that differ, and only by their date
C15_Witness ==
    /\ ~HasDate
    /\ Len(entries) = 2
    /\ entries[1].kind = "ok"
    /\ entries[1] # entries[2]
    /\ Dated(entries[1], 0) = Dated(entries[2], 0)

\* the rows of the frequency table of a side (1: dev, 2: test) that are not
\* the one of 'oov'
InVocab(side) ==
    SelectSeq(score_location[IF side = 1 THEN lexical_dev_frequency
                             ELSE lexical_test_frequency],
              LAMBDA r : r.frequency # "oov")

\* the sizes given to the rows of one type of the correlation table of a side
SizesOf(side, type) ==
    LET table == score_location[IF side = 1 THEN semantic_dev_correlation
                                ELSE semantic_test_correlation]
        size  == IF side = 1 THEN semantic_size.dev ELSE semantic_size.test
    IN  {size[i].size : i \in {j \in 1..Len(table) : table[j].type = type}}

CorrelationsOf(side, type) ==
    Values(Column(SelectSeq(
        score_location[IF side = 1 THEN semantic_dev_correlation
                       ELSE semantic_test_correlation],
        LAMBDA r : r.type = type), "correlation"))

EqualN(side) ==
    \A i, j \in 1..Len(InVocab(side)) : InVocab(side)[i].n = InVocab(side)[j].n

NoPair(side) == \A i \in 1..Len(InVocab(side)) : InVocab(side)[i].n = 0

\* C16 as claimed: whenever the weights of the categories are equal, each
\* weighted general score is the mean of the scores of the categories.
C16_EqualWeights ==
    \A n \in 1..Len(entries) :
        (Absent = {} /\ EqualN(1) /\ EqualN(2)) =>
            /\ entries[n].kind = "ok"
            /\ \A side \in {1, 2} :
                   entries[n].lexical_invocab[side]
                       = mean(Column(InVocab(side), "score"))

\* C16 amended: whenever the weights of the categories are equal and not
\* zero, each weighted general score is the mean of the scores of the
\* categories; when the in-vocabulary bands of a frequency table all have
\* n = 0, or are none, no record is built (ZeroDivisionError).
C16_EqualNonZeroWeights ==
    \A n \in 1..Len(entries) :
        Absent = {} =>
            /\ (NoPair(1) \/ NoPair(2))
                   => entries[n].kind = "ZeroDivisionError"
            /\ entries[n].kind = "ok" =>
                   /\ \A side \in {1, 2} :
                          EqualN(side) =>
                              entries[n].lexical_invocab[side]
                                  = RMean(Values(Column(InVocab(side),
                                                        "score")))
                   /\ \A side \in {1, 2} :
                          /\ Cardinality(SizesOf(side, "synthetic")) = 1 =>
                                 entries[n].weighted_semantic_synthetic[side]
                                     = RMean(CorrelationsOf(side,
                                                            "synthetic"))
                          /\ Cardinality(SizesOf(side, "librispeech")) = 1 =>
                                 entries[n].weighted_semantic_librispeech[side]
                                     = RMean(CorrelationsOf(side,
                                                            "librispeech"))

\* C16 witness: two in-vocabulary bands of two pairs each, of scores 0 and 1,
\* and the weighted score 1/2
C16_Witness ==
    \E n \in 1..Len(entries) :
        /\ entries[n].kind = "ok"
        /\ Len(InVocab(1)) = 2
        /\ InVocab(1)[1].n = 2 /\ InVocab(1)[2].n = 2
        /\ InVocab(1)[1].score # InVocab(1)[2].score
        /\ entries[n].lexical_invocab[1] = Some([num |-> 1, den |-> 2])

\* two synthetic datasets of two pairs each, of correlations 0 and 1, and the
\* weighted score 1/2
SemanticEqualWeights ==
    \E n \in 1..Len(entries) :
        /\ entries[n].kind = "ok"
        /\ SizesOf(1, "synthetic") = {2}
        /\ CorrelationsOf(1, "synthetic")
               = <<[num |-> 0, den |-> 1], [num |-> 1, den |-> 1]>>
        /\ entries[n].weighted_semantic_synthetic[1]
               = Some([num |-> 1, den |-> 2])

\* the reads of the feature file of a gold row, and the gold rows that name
\* the file of a gold row
ReadsOf(x) ==
    Cardinality({i \in 1..Len(reads) :
        /\ reads[i].file = "feature"
        /\ reads[i].type = x.type
        /\ reads[i].filename = x.filename})

RowsNaming(x) ==
    Cardinality({i \in 1..Len(arguments.gold_file.frame) :
        /\ arguments.gold_file.frame[i].type = x.type
        /\ arguments.gold_file.frame[i].filename = x.filename})

GoldRows == Range(arguments.gold_file.frame)

PooledVectors ==
    {pool[i].pooling.data : i \in {k \in 1..Len(pool) : pool[k].pooling.ndim = 1}}

\* C18: for every accepted pooling method name, every operand of every
\* distance computation of semantic.evaluate is made of pooled vectors: a
\* matrix whose lines are vectors of the pool, never a raw feature matrix.
C18_PooledVectors ==
    arguments.pooling \in PoolingNames =>
        \A i \in 1..Len(cdists) :
            /\ cdists[i].XA.ndim = 2
            /\ cdists[i].XB.ndim = 2
            /\ Range(cdists[i].XA.data) \subseteq PooledVectors
            /\ Range(cdists[i].XB.data) \subseteq PooledVectors

\* the gold rows of the tokens of a word in a dataset variant
TokensAt(type, word) ==
    {i \in 1..Len(arguments.gold_file.frame) :
        /\ arguments.gold_file.frame[i].type = type
        /\ arguments.gold_file.frame[i].word = word}

Bounded(n) == n >= 1 /\ n <= MaxTokens

\* C19: semantic.evaluate returns no distance for a pair, of either variant,
\* one side of which has more than 10 tokens or no token: a call that
\* returned scored only pairs whose two sides have 1 to 10 tokens.
C19_BoundEnforced ==
    evaluated.kind = "ok" =>
        \A k \in 1..Len(evaluated.pairs) :
            /\ Bounded(Cardinality(TokensAt(evaluated.pairs[k].type,
                                            evaluated.pairs[k].word_1)))
            /\ Bounded(Cardinality(TokensAt(evaluated.pairs[k].type,
                                            evaluated.pairs[k].word_2)))

\* the pooled vector of the feature file of a gold row
PooledOf(i) ==
    pooling_function(arguments.pooling,
        loadtxt(arguments.submission_dir.files[
            <<arguments.gold_file.frame[i].type,
              arguments.gold_file.frame[i].filename>>])).value.data

\* the mean of the distances of the pooled vectors over pairs of gold rows
MeanDistance(S) ==
    LET total == RSum([k \in 1..Len(S) |->
            metric_distance(arguments.metric,
                PooledOf(S[k][1]), PooledOf(S[k][2]))])
    IN  Rat(total.num, total.den * Len(S))

SameVoice(i, j) ==
    arguments.gold_file.frame[i].voice = arguments.gold_file.frame[j].voice

\* the pairs of tokens the claim gives to a pair: those of one voice for a
\* synthetic pair, all of them for a librispeech pair
TokenPairs(pair) ==
    LET r_1 == SortedSeq(TokensAt(pair.type, pair.word_1))
        r_2 == SortedSeq(TokensAt(pair.type, pair.word_2))
        every == [k \in 1..(Len(r_1) * Len(r_2)) |->
            <<r_1[((k - 1) \div Len(r_2)) + 1], r_2[((k - 1) % Len(r_2)) + 1]>>]
        Kept(t) == pair.type = "synthetic" => SameVoice(t[1], t[2])
    IN  SelectSeq(every, Kept)

\* C20: with a pooling that gives vectors, the score of a synthetic pair is
\* the mean of the distances between the tokens of word_1 and of word_2 of
\* one voice, and the score of a librispeech pair is the mean of the
\* distances between every librispeech token of word_1 and every
\* librispeech token of word_2.
C20_MeanOfDistances ==
    evaluated.kind = "ok" /\ arguments.pooling # "off" =>
        \A k \in 1..Len(evaluated.pairs) :
            evaluated.pairs[k].score = MeanDistance(TokenPairs(evaluated.pairs[k]))

\* no file name is given to tokens of the two variants
NamesApart ==
    \A i, j \in 1..Len(arguments.gold_file.frame) :
        arguments.gold_file.frame[i].filename
            = arguments.gold_file.frame[j].filename
        => arguments.gold_file.frame[i].type = arguments.gold_file.frame[j].type

\* the scores of C20 when the file names of the two variants are disjoint
MeanOfDistancesNamesApart == NamesApart => C20_MeanOfDistances

\* a returned call scored a synthetic pair on tokens of both voices and a
\* librispeech pair on several tokens, with file names apart
MeanOfDistancesReached ==
    /\ evaluated.kind = "ok" /\ arguments.pooling # "off" /\ NamesApart
    /\ \E k \in 1..Len(evaluated.pairs) :
        /\ Len(TokenPairs(evaluated.pairs[k])) > 1
        /\ Len(TokenPairs(evaluated.pairs[k])) <
             Cardinality(TokensAt(evaluated.pairs[k].type,
                                  evaluated.pairs[k].word_1))
             * Cardinality(TokensAt(evaluated.pairs[k].type,
                                    evaluated.pairs[k].word_2))

\* the rows of the scored pairs of one group of the correlation table
GroupRows(c) ==
    {k \in 1..Len(evaluated.pairs) :
        /\ evaluated.pairs[k].type = c.type
        /\ evaluated.pairs[k].dataset = c.dataset}

\* the human judgment of a scored pair: the column that is filled
HumanOf(k) ==
    IF evaluated.pairs[k].relatedness = NaN
    THEN Val(evaluated.pairs[k].similarity)
    ELSE Val(evaluated.pairs[k].relatedness)

\* in a group the machine distance is a strictly decreasing function of the
\* human judgment
StrictlyDecreasing(c) ==
    \A i, j \in GroupRows(c) :
        /\ HumanOf(i) = HumanOf(j)
            => evaluated.pairs[i].score = evaluated.pairs[j].score
        /\ HumanOf(i) < HumanOf(j)
            => RLess(evaluated.pairs[j].score, evaluated.pairs[i].score)

Judgments(c) == {HumanOf(k) : k \in GroupRows(c)}

\* C21 as claimed: the correlation reported for a group whose machine
\* distance is a strictly decreasing function of the human judgment is +1.
C21_PlusOne ==
    evaluated.kind = "ok" =>
        \A i \in 1..Len(evaluated.correlation) :
            StrictlyDecreasing(evaluated.correlation[i])
            => evaluated.correlation[i].correlation =
                   Some([sign |-> 1, square |-> Rat(1, 1)])

\* C21, amended: the correlation reported for such a group is +100 (the
\* coefficient +1 times 100) when the group holds two different human
\* judgments at least, and is undefined (NaN) when it holds one.
C21_PlusHundred ==
    evaluated.kind = "ok" =>
        \A i \in 1..Len(evaluated.correlation) :
            StrictlyDecreasing(evaluated.correlation[i])
            => evaluated.correlation[i].correlation =
                   IF Cardinality(Judgments(evaluated.correlation[i])) > 1
                   THEN Some([sign |-> 1, square |-> Rat(10000, 1)])
                   ELSE NaN

\* a returned call reported +100 for a group of three pairs of three
\* different judgments whose distance decreases as the judgment grows
C21_Witness ==
    /\ evaluated.kind = "ok"
    /\ \E i \in 1..Len(evaluated.correlation) :
        /\ StrictlyDecreasing(evaluated.correlation[i])
        /\ Cardinality(Judgments(evaluated.correlation[i])) > 2
        /\ evaluated.correlation[i].correlation =
               Some([sign |-> 1, square |-> Rat(10000, 1)])

\* C22: a call of semantic.evaluate with an unknown pooling method name or an
\* unknown metric name raises ValueError, and has read no content of the
\* gold, of the pairs or of a feature file.
C22_ConfigurationFirst ==
    /\ evaluated.kind # "none"
    /\ \/ arguments.pooling \notin PoolingNames
       \/ arguments.metric \notin Metrics
    => evaluated.kind = "ValueError" /\ reads = <<>>

\* the part of C22 about the pooling method name
UnknownPoolingFirst ==
    evaluated.kind # "none" /\ arguments.pooling \notin PoolingNames
    => evaluated.kind = "ValueError" /\ reads = <<>>

\* the files of a task this run wrote
WrittenOf(task) == {f \in output_directory : f[2] = task}

Failed == running \in {"exit", "raised"}

\* C23: when the evaluate command fails while it evaluates a task, the output
\* directory holds no CSV file of that task written by this run.
C23_NoPartialOutput ==
    Failed => WrittenOf(Val(fault).task) = {}

\* the part of C23 that holds: a failure of the first step that can write
\* leaves no file of the task, and eval_phonetic never leaves one
NoPartialOutputFirstKind ==
    /\ Failed /\ Val(fault).kind \in {"", "dev"} /\ Val(fault).stage <= 1
        => WrittenOf(Val(fault).task) = {}
    /\ Failed /\ Val(fault).task = "phonetic" => WrittenOf("phonetic") = {}

\* the errors of the files checked, in the order of the check
FileErrors ==
    detected([i \in 1..Len(checked) |-> validate_file(checked[i], checking.files)])

\* the files were checked by one of the two validate
FilesChecked == validation # NoOutcome /\ checked # <<>>

ErrorDetected == validation = ValidationError("error detected in phonetic")

\* the first MaxPrinted errors are printed, in order, one per line
FirstErrorsPrinted(errors) ==
    /\ Len(printed) >= Len(print_errors(errors))
    /\ SubSeq(printed, 1, Len(print_errors(errors))) = print_errors(errors)

\* C24: in semantic.validate and phonetic.validate an error on one file never
\* prevents the other files from being checked; once all files are checked
\* the ValidationError of the report is raised if and only if at least one
\* file had an error, and the report is the first 10 errors followed, when
\* there are more than 10, by one line giving the number of errors left, the
\* total minus 10.
C24_ErrorReport ==
    FilesChecked =>
        /\ Range(checked) = Range(Stems(checking.required))
        /\ ErrorDetected <=> FileErrors # <<>>
        /\ FirstErrorsPrinted(FileErrors)
        /\ IF Len(FileErrors) > MaxPrinted
           THEN /\ Len(printed) = MaxPrinted + 1
                /\ printed[MaxPrinted + 1].arg = Some(Len(FileErrors) - MaxPrinted)
           ELSE Len(printed) = Len(FileErrors)

\* what holds for both: every file is checked, the error is raised exactly
\* when a file had one, the first 10 errors are printed and one more line
\* follows them when there are more than 10; that line carries the number of
\* errors left unless it is the one of semantic.validate
ErrorReportButCount ==
    FilesChecked =>
        /\ Range(checked) = Range(Stems(checking.required))
        /\ ErrorDetected <=> FileErrors # <<>>
        /\ FirstErrorsPrinted(FileErrors)
        /\ IF Len(FileErrors) > MaxPrinted
           THEN /\ Len(printed) = MaxPrinted + 1
                /\ \/ printed[MaxPrinted + 1].arg = Some(Len(FileErrors) - MaxPrinted)
                   \/ printed[MaxPrinted + 1] = semantic_print_more(FileErrors)[1]
           ELSE Len(printed) = Len(FileErrors)

\* phonetic.validate reported more than 10 errors
MoreErrorsCounted ==
    /\ FilesChecked
    /\ Len(FileErrors) > MaxPrinted
    /\ printed[MaxPrinted + 1].arg = Some(Len(FileErrors) - MaxPrinted)

\* the (type, subtype) categories of a by-type table
Categories(table) ==
    {<<table[i].type, table[i].subtype>> : i \in 1..Len(table)}

\* the row of a category in a by-type table, NaN without one
CategoryRow(table, c) ==
    IF c \in Categories(table)
    THEN Some(CHOOSE r \in Range(table) : <<r.type, r.subtype>> = c)
    ELSE NaN

\* the breakdown has exactly one record for each category of the two tables,
\* with the dev row and the test row of that category
OnePerCategory(merged, dev, test) ==
    /\ Len(merged) = Cardinality(Categories(dev) \cup Categories(test))
    /\ \A c \in Categories(dev) \cup Categories(test) :
           \E m \in 1..Len(merged) :
               /\ merged[m].dev = CategoryRow(dev, c)
               /\ merged[m].test = CategoryRow(test, c)

\* C25: SyntacticScores.detailed returns exactly one record per distinct
\* (type, subtype) category of the dev or test by-type table, and the record
\* carries the dev and test n, score and std of that same category.
C25_OnePerCategory ==
    \A n \in 1..Len(entries) :
        entries[n].kind = "ok" =>
            OnePerCategory(entries[n].more.syntactic,
                           score_location[syntactic_dev_types],
                           score_location[syntactic_test_types])

\* no type of the two by-type tables has two subtypes
OneSubtypeByType ==
    \A c, d \in Categories(score_location[syntactic_dev_types])
                \cup Categories(score_location[syntactic_test_types]) :
        c[1] = d[1] => c = d

\* what holds: one record per category when no type has two subtypes
OnePerCategoryOfOneSubtype ==
    \A n \in 1..Len(entries) :
        (entries[n].kind = "ok" /\ OneSubtypeByType) =>
            OnePerCategory(entries[n].more.syntactic,
                           score_location[syntactic_dev_types],
                           score_location[syntactic_test_types])

\* a record of the breakdown joins the dev row of one subtype with the test
\* row of another
SubtypesCrossed ==
    \E n \in 1..Len(entries) :
        /\ entries[n].kind = "ok"
        /\ \E m \in 1..Len(entries[n].more.syntactic) :
               LET row == entries[n].more.syntactic[m]
               IN  /\ row.dev # NaN /\ row.test # NaN
                   /\ Val(row.dev).subtype # Val(row.test).subtype

\* C26: every meta.yaml accepted by meta.validate can be loaded by
\* Metadata.create_from: the top-level keys validation requires are exactly
\* the fields Metadata accepts and requires from the file.
C26_AcceptedIsLoadable ==
    /\ ValidatedKeys = RequiredFields
    /\ (accepted.kind = "ok" /\ metadata # NoOutcome) => metadata.kind = "ok"

\* what holds: no meta.yaml is both accepted by meta.validate and loaded by
\* Metadata.create_from; an accepted file makes create_from raise TypeError
AcceptedIsNeverLoadable ==
    (accepted # NoOutcome /\ metadata # NoOutcome) =>
        /\ ~(accepted.kind = "ok" /\ metadata.kind = "ok")
        /\ accepted.kind = "ok" =>
               /\ metadata.kind = "TypeError"
               /\ metadata.names = {"budget"}

\* a meta.yaml was accepted by meta.validate and given to create_from
AcceptedAndRefused ==
    accepted.kind = "ok" /\ metadata.kind = "TypeError"

\* a meta.yaml was loaded by create_from and refused by meta.validate
LoadedAndRefused ==
    metadata.kind = "ok" /\ accepted.kind = "MismatchError"

\* C27: during one run of multipart_upload with retry limit R
\* (NB_RETRY_ATTEMPTS = 2) each part is sent to the server at most R + 1
\* times, whatever the answers of the server, and a part whose status is
\* 'failed' is never sent again.
C27_SentAtMost ==
    /\ \A k \in 1..Len(sent) : sent[k] <= NB_RETRY_ATTEMPTS + 1
    /\ \A s \in sends : s[2] # "failed"
    /\ (upload = "sending" /\ sent[current] > 1) => man[current] # "failed"

\* C27 witness: a part was sent R + 1 times in the run and is 'failed', and
\* the loop went on to another part
C27_Witness ==
    /\ upload = "sending"
    /\ \E k \in 1..Len(man) :
           /\ k # current
           /\ man[k] = "failed"
           /\ sent[k] = NB_RETRY_ATTEMPTS + 1

\* every part is 'done' or 'failed'
Settled == \A k \in 1..Len(man) : man[k] \in {"done", "failed"}

\* C28: the upload loop of multipart_upload terminates for every manifest and
\* every sequence of answers of the server, and when it stops every part is
\* 'done' or 'failed'.
C28_LoopTerminates ==
    /\ (upload = "loop") ~> (upload \in Ended)
    /\ [](upload = "returned" => Settled)

\* C28 witness: the loop stopped in a run that sent a part R + 1 times
C28_Witness ==
    /\ upload = "returned"
    /\ \E k, j \in 1..Len(man) :
           /\ man[k] = "failed" /\ sent[k] = NB_RETRY_ATTEMPTS + 1
           /\ man[j] = "done" /\ sent[j] = NB_RETRY_ATTEMPTS + 1

\* C29: a part whose upload succeeded is 'done' in the checkpoint file before
\* any other part is attempted; set_waiting and set_failed leave 'done' as it
\* is; a part that is 'done' is never uploaded again, in the run or in a later
\* run resumed from the checkpoint file.
C29_DoneIsKept ==
    /\ save_file # NaN =>
           \A k \in succeeded : Val(save_file).manifest[k] = "done"
    /\ \A k \in 1..Len(man) :
           man[k] = "done" =>
               /\ set_waiting(man, k)[k] = "done"
               /\ set_failed(man, k)[k] = "done"
    /\ \A s \in sends : s[2] # "done"
    /\ upload = "sending" => current \notin succeeded

\* C29 witness: a run resumed from the checkpoint file, in which a part done
\* in an earlier run was not sent, is uploading another part
C29_Witness ==
    /\ upload = "sending"
    /\ runs > 1
    /\ \E k \in succeeded :
           /\ k # current
           /\ sent[k] = 0
           /\ Val(save_file).manifest[k] = "done"

\* C30: multipart_upload deletes the checkpoint file and the directory of
\* the parts and returns an empty list if and only if every part ended
\* 'done'; otherwise it keeps the checkpoint file and returns exactly the
\* parts that are not 'done'.
C30_Returned ==
    upload = "returned" =>
        IF is_complete(man)
        THEN /\ save_file = NaN
             /\ ~tmp_location
             /\ returns = Some(<<>>)
        ELSE /\ save_file # NaN
             /\ tmp_location
             /\ returns = Some(parts_with(man,
                    {"todo", "waiting", "retry_1", "retry_2", "retry_3",
                     "retry_4", "failed"}))
             /\ Val(returns) # <<>>

\* C30 witness: the function returned the failed part of a manifest whose
\* other parts are done
C30_Witness ==
    /\ upload = "returned"
    /\ Len(man) > 1
    /\ \E k \in 1..Len(man) :
           /\ man[k] = "failed"
           /\ returns = Some(<<k>>)
           /\ save_file # NaN

\* the function returned the empty list of an upload that is complete
ReturnedComplete ==
    /\ upload = "returned"
    /\ is_complete(man)
    /\ returns = Some(<<>>)
    /\ save_file = NaN

====
